---- MODULE Spec2Model ----
(***************************************************************************)
(* Verification model of the Context Retrieval & Assembly Engine.          *)
(*                                                                         *)
(* Part 1: Knowledge Vector Index (backend/app/knowledge_service.py):      *)
(*   the module-level cache (_VECTOR_STORE, _VECTOR_STORE_SIGNATURE,       *)
(*   _VECTOR_STORE_LOCK), concurrent search calls and document mutations.  *)
(*   Specification: Spec.                                                  *)
(* Part 2: History Compressor (backend/app/llm_service.py):                *)
(*   _summarize_history and _compress_history_messages as operators.       *)
(*   Specification: SpecHistory.                                           *)
(***************************************************************************)
EXTENDS Integers, Sequences, FiniteSets, TLC

----------------------------------------------------------------------------
(* Bounds of the model *)

MaxDocId   == 2      \* primary keys the database hands out
MaxCommits == 2      \* content-changing document mutations per behaviour

\* Request threads (FastAPI runs the synchronous endpoints in a thread pool).
Searchers == {"s1", "s2"}     \* threads calling KnowledgeService.search
Mutators  == {"m1"}           \* threads calling add/update/delete_document
DocIds    == 1..MaxDocId

----------------------------------------------------------------------------
(* Part 1: Knowledge Vector Index *)

\* Text a document contributes to the index (doc.content or doc.raw_content
\* or ""): blank, or one of two distinguishable non-blank texts.
Contents == {"", "a", "b"}
NoDoc    == "absent"

\* The knowledge_documents table when it holds no row.
EmptyDocs == [i \in DocIds |-> NoDoc]

\* _VECTOR_STORE = None and _VECTOR_STORE_SIGNATURE = None
NoStore == [built |-> FALSE, docs |-> EmptyDocs, seq |-> 0]
NoSig   == <<-1, -1>>

\* _VECTOR_STORE_LOCK when no thread holds it
Free == "free"

VARIABLES
    docs,        \* knowledge_documents table: id -> content or NoDoc
    next_id,     \* auto-increment counter of the table
    api_key,     \* TRUE iff _get_embedding_config finds a non-empty api_key
    store,       \* _VECTOR_STORE
    sig,         \* _VECTOR_STORE_SIGNATURE
    lock,        \* _VECTOR_STORE_LOCK: Free or the searcher holding it
    s_pc,        \* searcher position in search/_get_or_build_vector_store
    s_snap,      \* searcher local: docs read at line 172
    s_obs,       \* history: what the searcher's call saw
    s_got,       \* value returned by _get_or_build_vector_store
    s_res,       \* value returned by search: "none" (no return yet), "empty", "hits"
    m_pc,        \* mutator position: "idle" or "committed" (before invalidate_cache)
    m_seq,       \* history: commit number of the mutator's pending mutation
    commits,     \* history: number of content-changing commits so far
    returned,    \* history: highest commit number whose mutation call has returned
    epoch,       \* history: builds and disturbances since the last invalidation
    lastFail     \* history: "no" | "failed" (a build just failed) | "retrying"

kvars == <<docs, next_id, api_key, store, sig, lock, s_pc, s_snap, s_obs,
           s_got, s_res, m_pc, m_seq, commits, returned, epoch, lastFail>>

Present(d) == {i \in DocIds : d[i] # NoDoc}

MaxOf(S) == IF S = {} THEN 0 ELSE CHOOSE x \in S : \A y \in S : y <= x

\* _signature_from_docs: (len(docs), max id)
SignatureFromDocs(d) == <<Cardinality(Present(d)), MaxOf(Present(d))>>

\* lines 187-202: texts is non-empty iff some document has non-blank text
HasTexts(d) == \E i \in Present(d) : d[i] # ""

\* A searcher's locals when it is not inside _get_or_build_vector_store.
\* seq: commit number of the snapshot; req: commit number of the latest
\* mutation call that had returned when the search started.
NoSnap == [docs |-> EmptyDocs, seq |-> 0, req |-> 0]

\* nodocs: line 173 found no documents; nokey: no api_key at the cache check;
\* hit: line 179 held; stale: the store handed back lacks a mutation whose
\* call had returned before this search started; cur: the call started after
\* the latest invalidation.
NoObs == [nodocs |-> FALSE, nokey |-> FALSE, hit |-> FALSE, stale |-> FALSE,
          cur |-> FALSE]

\* builds: successful builds since the latest invalidation (2 stands for
\* "two or more"); clean: every search call acting on the cache since then
\* read its documents after the latest mutation.
NewEpoch(clean) == [builds |-> 0, clean |-> clean]

KInit ==
    /\ docs = EmptyDocs
    /\ next_id = 1
    /\ api_key \in BOOLEAN
    /\ store = NoStore
    /\ sig = NoSig
    /\ lock = Free
    /\ s_pc = [t \in Searchers |-> "idle"]
    /\ s_snap = [t \in Searchers |-> NoSnap]
    /\ s_obs = [t \in Searchers |-> NoObs]
    /\ s_got = [t \in Searchers |-> NoStore]
    /\ s_res = [t \in Searchers |-> "none"]
    /\ m_pc = [m \in Mutators |-> "idle"]
    /\ m_seq = [m \in Mutators |-> 0]
    /\ commits = 0
    /\ returned = 0
    /\ epoch = NewEpoch(TRUE)
    /\ lastFail = "no"

\* search, lines 253-261: the result for the store _get_or_build returned;
\* similarity_search embeds the query and may raise, which search catches.
SearchResult(vs, embed_ok) ==
    IF ~vs.built THEN "empty"
    ELSE IF embed_ok THEN "hits" ELSE "empty"

\* search -> _get_or_build_vector_store, lines 172-176: read the documents
\* (outside the lock) and return None when there are none.
SearchRead(t) ==
    /\ s_pc[t] = "idle"
    /\ s_got' = [s_got EXCEPT ![t] = NoStore]
    /\ IF Present(docs) = {}
       THEN /\ s_snap' = [s_snap EXCEPT ![t] = NoSnap]
            /\ s_obs' = [s_obs EXCEPT ![t] =
                            [NoObs EXCEPT !.nodocs = TRUE, !.cur = TRUE]]
            /\ s_res' = [s_res EXCEPT ![t] = SearchResult(NoStore, TRUE)]
            /\ UNCHANGED s_pc
       ELSE /\ s_snap' = [s_snap EXCEPT ![t] =
                            [docs |-> docs, seq |-> commits, req |-> returned]]
            /\ s_obs' = [s_obs EXCEPT ![t] = [NoObs EXCEPT !.cur = TRUE]]
            /\ s_res' = [s_res EXCEPT ![t] = "none"]
            /\ s_pc' = [s_pc EXCEPT ![t] = "wait"]
    /\ UNCHANGED <<docs, next_id, api_key, store, sig, lock, m_pc, m_seq,
                   commits, returned, epoch, lastFail>>

\* Mutant of LockAvailable: the critical section is entered without waiting.
LockAvailable_NoWait(l) == TRUE

\* "with _VECTOR_STORE_LOCK:" (lines 126, 178) blocks until the lock is free
LockAvailable(l) == l = Free

\* line 179: the cache-hit test
CacheHit(st, sg, d) == st.built /\ sg = SignatureFromDocs(d)

\* Mutant of KeyMissing: the api_key test is skipped.
KeyMissing_Never(k) == FALSE

\* lines 182-185: "if not api_key" after _get_embedding_config
KeyMissing(k) == ~k

\* lines 178-202: take the lock, test the cache, read the embedding
\* configuration, collect the texts.  Returns (releasing the lock) on a hit,
\* on a missing api_key and on empty texts; otherwise goes on to the build
\* with the lock held.
SearchLockCheck(t) ==
    /\ s_pc[t] = "wait"
    /\ LockAvailable(lock)
    /\ LET d   == s_snap[t].docs
           hit == CacheHit(store, sig, d)
           ret == hit \/ KeyMissing(api_key) \/ ~HasTexts(d)
           got == IF hit THEN store ELSE NoStore
       IN /\ s_obs' = [s_obs EXCEPT ![t].nokey = ~api_key, ![t].hit = hit,
                                    ![t].stale = hit /\ store.seq < s_snap[t].req]
          /\ epoch' = [epoch EXCEPT !.clean = @ /\ s_snap[t].seq = commits]
          /\ IF ret
             THEN /\ \E ok \in BOOLEAN :
                        s_res' = [s_res EXCEPT ![t] = SearchResult(got, ok)]
                  /\ s_got' = [s_got EXCEPT ![t] = got]
                  /\ s_pc' = [s_pc EXCEPT ![t] = "idle"]
                  /\ s_snap' = [s_snap EXCEPT ![t] = NoSnap]
                  /\ lastFail' = "no"
                  /\ UNCHANGED lock
             ELSE /\ s_pc' = [s_pc EXCEPT ![t] = "building"]
                  /\ lock' = t
                  /\ lastFail' = IF lastFail = "failed" THEN "retrying" ELSE "no"
                  /\ UNCHANGED <<s_res, s_got, s_snap>>
    /\ UNCHANGED <<docs, next_id, api_key, store, sig, m_pc, m_seq,
                   commits, returned>>

\* Shapes of the embedding endpoint's answer: an HTTP error, a JSON body that
\* is no dict, a dict without "data", and "data" as a list, a dict or a string.
EmbedResponses == {"http_error", "not_dict", "no_data", "data_list",
                   "data_dict", "data_string"}

\* DoubaoEmbeddings.embed_documents, lines 53-90: TRUE iff the call raises
EmbedRaises(r) ==
    CASE r = "http_error"  -> TRUE     \* raise_for_status, line 56
      [] r = "not_dict"    -> TRUE     \* line 62
      [] r = "no_data"     -> TRUE     \* line 67
      [] r = "data_dict"   -> FALSE    \* wrapped into a list, line 71
      [] r = "data_string" -> TRUE     \* line 76
      [] OTHER             -> FALSE    \* a list: embeddings extracted, line 81

\* line 230: FAISS.from_texts succeeded and is assigned to _VECTOR_STORE
BuildStore(t) ==
    /\ s_pc[t] = "building"
    /\ \E r \in EmbedResponses : ~EmbedRaises(r)
    /\ store' = [built |-> TRUE, docs |-> s_snap[t].docs, seq |-> s_snap[t].seq]
    /\ s_pc' = [s_pc EXCEPT ![t] = "store_set"]
    /\ UNCHANGED <<docs, next_id, api_key, sig, lock, s_snap, s_obs, s_got,
                   s_res, m_pc, m_seq, commits, returned, epoch, lastFail>>

\* lines 231-232: record the signature, return the store (lock released),
\* then search runs similarity_search on it.
BuildSig(t) ==
    /\ s_pc[t] = "store_set"
    /\ sig' = SignatureFromDocs(s_snap[t].docs)
    /\ lock' = Free
    /\ s_got' = [s_got EXCEPT ![t] = store]
    /\ \E ok \in BOOLEAN : s_res' = [s_res EXCEPT ![t] = SearchResult(store, ok)]
    /\ s_pc' = [s_pc EXCEPT ![t] = "idle"]
    /\ s_snap' = [s_snap EXCEPT ![t] = NoSnap]
    /\ epoch' = [epoch EXCEPT !.builds = IF @ = 0 THEN 1 ELSE 2]
    /\ lastFail' = "no"
    /\ UNCHANGED <<docs, next_id, api_key, store, s_obs, m_pc, m_seq,
                   commits, returned>>

\* Mutant of FailedCache: the handler returns None without resetting the globals.
FailedCache_Untouched(st, sg) == <<st, sg>>

\* lines 235-236: what the exception handler leaves in the two globals
FailedCache(st, sg) == <<NoStore, NoSig>>

\* lines 233-237: the embedding call (or FAISS) raised; the handler clears
\* the cache and returns None.
BuildFail(t) ==
    /\ s_pc[t] = "building"
    /\ \E r \in EmbedResponses : EmbedRaises(r)
    /\ store' = FailedCache(store, sig)[1]
    /\ sig' = FailedCache(store, sig)[2]
    /\ lock' = Free
    /\ s_got' = [s_got EXCEPT ![t] = NoStore]
    /\ s_res' = [s_res EXCEPT ![t] = SearchResult(NoStore, TRUE)]
    /\ s_pc' = [s_pc EXCEPT ![t] = "idle"]
    /\ s_snap' = [s_snap EXCEPT ![t] = NoSnap]
    /\ lastFail' = "failed"
    /\ UNCHANGED <<docs, next_id, api_key, s_obs, m_pc, m_seq,
                   commits, returned, epoch>>

\* Primary key of a new row: SQLite rowid (max + 1) or an auto-increment
\* counter that never reuses a key.
NewIds(d, n) == {MaxOf(Present(d)) + 1, n} \cap DocIds

\* A content-changing commit is a "document mutation in between" for the
\* calls of the current epoch.
Committed(m, chg) ==
    /\ commits' = commits + chg
    /\ m_seq' = [m_seq EXCEPT ![m] = commits + chg]
    /\ m_pc' = [m_pc EXCEPT ![m] = "committed"]
    /\ epoch' = [epoch EXCEPT !.clean = @ /\ chg = 0]

\* add_document, lines 240-248: insert and commit (invalidate_cache follows)
AddCommit(m, c) ==
    /\ m_pc[m] = "idle"
    /\ commits < MaxCommits
    /\ \E id \in NewIds(docs, next_id) :
          /\ docs' = [docs EXCEPT ![id] = c]
          /\ next_id' = IF id >= next_id THEN id + 1 ELSE next_id
    /\ Committed(m, 1)
    /\ UNCHANGED <<api_key, store, sig, lock, s_pc, s_snap, s_obs, s_got,
                   s_res, returned, lastFail>>

\* update_document, lines 270-282: "if content:" keeps the old content when
\* the argument is empty; commit (invalidate_cache follows).
UpdateCommit(m, id, c) ==
    /\ m_pc[m] = "idle"
    /\ docs[id] # NoDoc
    /\ LET new == IF c = "" THEN docs[id] ELSE c
           chg == IF new = docs[id] THEN 0 ELSE 1
       IN /\ commits + chg <= MaxCommits
          /\ docs' = [docs EXCEPT ![id] = new]
          /\ Committed(m, chg)
    /\ UNCHANGED <<next_id, api_key, store, sig, lock, s_pc, s_snap, s_obs,
                   s_got, s_res, returned, lastFail>>

\* delete_document, lines 287-290: delete and commit (invalidate_cache follows)
DeleteCommit(m, id) ==
    /\ m_pc[m] = "idle"
    /\ docs[id] # NoDoc
    /\ commits < MaxCommits
    /\ docs' = [docs EXCEPT ![id] = NoDoc]
    /\ Committed(m, 1)
    /\ UNCHANGED <<next_id, api_key, store, sig, lock, s_pc, s_snap, s_obs,
                   s_got, s_res, returned, lastFail>>

\* Mutant of InvalidatedCache: only _VECTOR_STORE is cleared.
InvalidatedCache_KeepSig(st, sg) == <<NoStore, sg>>

\* lines 127-128: what invalidate_cache leaves in the two globals
InvalidatedCache(st, sg) == <<NoStore, NoSig>>

\* invalidate_cache, lines 124-128, as the last step of a mutation: under
\* the lock, clear both globals; the mutation call then returns.
InvalidateCache(m) ==
    /\ m_pc[m] = "committed"
    /\ LockAvailable(lock)
    /\ store' = InvalidatedCache(store, sig)[1]
    /\ sig' = InvalidatedCache(store, sig)[2]
    /\ m_pc' = [m_pc EXCEPT ![m] = "idle"]
    /\ returned' = IF m_seq[m] > returned THEN m_seq[m] ELSE returned
    /\ epoch' = NewEpoch(\A t \in Searchers :
                            s_pc[t] # "idle" => s_snap[t].seq = commits)
    /\ s_obs' = [t \in Searchers |-> [s_obs[t] EXCEPT !.cur = FALSE]]
    /\ lastFail' = "no"
    /\ UNCHANGED <<docs, next_id, api_key, lock, s_pc, s_snap, s_got,
                   s_res, m_seq, commits>>

\* crud.create_llm_config / update_llm_config / delete_llm_config: the
\* active embedding configuration gains or loses its api_key.
SetApiKey(b) ==
    /\ b # api_key
    /\ api_key' = b
    /\ UNCHANGED <<docs, next_id, store, sig, lock, s_pc, s_snap, s_obs,
                   s_got, s_res, m_pc, m_seq, commits, returned, epoch,
                   lastFail>>

KNext ==
    \/ \E t \in Searchers : SearchRead(t)
    \/ \E t \in Searchers : SearchLockCheck(t)
    \/ \E t \in Searchers : BuildStore(t)
    \/ \E t \in Searchers : BuildSig(t)
    \/ \E t \in Searchers : BuildFail(t)
    \/ \E m \in Mutators, c \in Contents : AddCommit(m, c)
    \/ \E m \in Mutators, id \in DocIds, c \in Contents : UpdateCommit(m, id, c)
    \/ \E m \in Mutators, id \in DocIds : DeleteCommit(m, id)
    \/ \E m \in Mutators : InvalidateCache(m)
    \/ \E b \in BOOLEAN : SetApiKey(b)


----------------------------------------------------------------------------
(* Part 2: History Compressor *)

MaxHistLen == 3      \* entries of the history argument
MaxKeep    == 2      \* largest keep_last argument

MsgCharCap     == 12000   \* _history_dict_to_message: longest verbatim content
MsgMarkerLen   == 12      \* length of the marker appended to a cut content
KeepLastDefault == 30     \* keep_last of _compress_history_messages

\* msg.get("content") is None
NoContent == [tag |-> "None", len |-> 0, blank |-> TRUE]

\* Entries a caller can put into the history list: dicts with a role and a
\* content (a text of a given length, possibly whitespace only, or None),
\* and values that are no dict.
HistoryEntries ==
    { [dict |-> TRUE,  role |-> "user",      content |-> [tag |-> "q", len |-> 5, blank |-> FALSE]],
      [dict |-> TRUE,  role |-> "Assistant", content |-> [tag |-> "r", len |-> 7, blank |-> FALSE]],
      [dict |-> TRUE,  role |-> "ai",        content |-> [tag |-> "w", len |-> 2, blank |-> TRUE]],
      [dict |-> TRUE,  role |-> "user",      content |-> [tag |-> "L", len |-> MsgCharCap + 1, blank |-> FALSE]],
      [dict |-> TRUE,  role |-> "system",    content |-> [tag |-> "s", len |-> 4, blank |-> FALSE]],
      [dict |-> TRUE,  role |-> "user",      content |-> NoContent],
      [dict |-> FALSE, role |-> "",          content |-> NoContent] }

\* What the summarizer model does when it is invoked.
LlmOutcomes == {"raise", "empty", "text", "long"}

BoundedSeq(S, n) == UNION {[1..k -> S] : k \in 0..n}

VARIABLES
    h_pc,        \* "input" before the call, "done" after it returned
    h_in,        \* argument history
    h_keep,      \* argument keep_last
    h_llm,       \* behaviour of the summarizer model during the call
    h_out        \* list returned by _compress_history_messages

hvars == <<h_pc, h_in, h_keep, h_llm, h_out>>

\* str.lower() on the role strings that occur
Lower(r) ==
    CASE r = "Assistant" -> "assistant"
      [] OTHER -> r

NoSummary == [kind |-> "none", omitted |-> 0, called |-> FALSE, cut |-> FALSE]
NoMessage == [type |-> "none", tag |-> "", len |-> 0, cut |-> FALSE,
              summary |-> NoSummary]

\* _history_dict_to_message, lines 375-387
HistoryDictToMessage(msg) ==
    LET role == Lower(msg.role)
        c    == msg.content
        long == c.len > MsgCharCap
        body == [tag |-> c.tag,
                 len |-> IF long THEN MsgCharCap + MsgMarkerLen ELSE c.len,
                 cut |-> long, summary |-> NoSummary]
    IN IF c = NoContent THEN NoMessage
       ELSE IF role = "user" THEN [type |-> "human"] @@ body
       ELSE IF role \in {"ai", "assistant"} THEN [type |-> "ai"] @@ body
       ELSE NoMessage

\* _summarize_history, lines 395-405: the entry contributes a line to raw
HasLine(msg) ==
    /\ Lower(msg.role) \in {"user", "ai", "assistant"}
    /\ msg.content # NoContent
    /\ ~msg.content.blank

\* Mutant of PlaceholderCount: counts the summarized lines instead.
PlaceholderCount_Lines(history, lines) == Len(lines)

\* line 431: the number the placeholder states, len(history)
PlaceholderCount(history, lines) == Len(history)

\* _summarize_history, lines 389-435.  called: the model was invoked.
SummarizeHistory(history, outcome) ==
    IF history = <<>> THEN NoSummary
    ELSE LET lines == SelectSeq(history, HasLine)
         IN IF lines = <<>> THEN NoSummary
            ELSE IF outcome \in {"raise", "empty"}
            THEN [kind |-> "placeholder",
                  omitted |-> PlaceholderCount(history, lines),
                  called |-> TRUE, cut |-> FALSE]
            ELSE [kind |-> "llm", omitted |-> 0, called |-> TRUE,
                  cut |-> outcome = "long"]

\* Python s[:stop]
PySliceTo(s, stop) ==
    LET n == Len(s)
        e == IF stop < 0 THEN (IF stop + n < 0 THEN 0 ELSE stop + n)
             ELSE (IF stop > n THEN n ELSE stop)
    IN SubSeq(s, 1, e)

\* Python s[start:]
PySliceFrom(s, start) ==
    LET n == Len(s)
        b == IF start < 0 THEN (IF start + n < 0 THEN 0 ELSE start + n)
             ELSE (IF start > n THEN n ELSE start)
    IN SubSeq(s, b + 1, n)

\* Mutant of Qualifies: the role test is dropped.
Qualifies_AnyRole(msg) ==
    /\ msg.dict
    /\ msg.content # NoContent

\* lines 443-449: the entry is kept by the normalization loop
Qualifies(msg) ==
    /\ msg.dict
    /\ Lower(msg.role) \in {"user", "ai", "assistant"}
    /\ msg.content # NoContent

\* line 450: the normalized dict
Normalized(msg) ==
    [dict |-> TRUE,
     role |-> IF Lower(msg.role) = "user" THEN "user" ELSE "ai",
     content |-> msg.content]

IsMessage(m) == m # NoMessage

\* lines 456-460 and 468-471: convert, dropping what converts to None
ToMessages(s) ==
    SelectSeq([i \in 1..Len(s) |-> HistoryDictToMessage(s[i])], IsMessage)

\* Mutant of RecentTurns: the first keep_last turns are kept.
RecentTurns_Head(normalized, keep_last) == PySliceTo(normalized, keep_last)

\* line 464: recent = normalized[-keep_last:]
RecentTurns(normalized, keep_last) == PySliceFrom(normalized, 0 - keep_last)

\* line 463: older = normalized[:-keep_last]
OlderTurns(normalized, keep_last) == PySliceTo(normalized, 0 - keep_last)

\* _compress_history_messages, lines 437-472
CompressHistoryMessages(history, keep_last, outcome) ==
    LET kept       == SelectSeq(history, Qualifies)
        normalized == [i \in 1..Len(kept) |-> Normalized(kept[i])]
    IN IF history = <<>> \/ normalized = <<>> THEN <<>>
       ELSE IF Len(normalized) <= keep_last THEN ToMessages(normalized)
       ELSE LET older   == OlderTurns(normalized, keep_last)
                recent  == RecentTurns(normalized, keep_last)
                summary == SummarizeHistory(older, outcome)
            IN <<[type |-> "system", tag |-> "summary", len |-> 0,
                  cut |-> summary.cut, summary |-> summary]>>
               \o ToMessages(recent)

HIdle ==
    /\ h_pc = "input"
    /\ h_in = <<>>
    /\ h_keep = 0
    /\ h_llm = "text"
    /\ h_out = <<>>

HInit ==
    /\ h_pc = "input"
    /\ h_in \in BoundedSeq(HistoryEntries, MaxHistLen)
    /\ h_keep \in 0..MaxKeep
    /\ h_llm \in LlmOutcomes
    /\ h_out = <<>>

\* One call of _compress_history_messages(history, keep_last=h_keep)
Compress ==
    /\ h_pc = "input"
    /\ h_out' = CompressHistoryMessages(h_in, h_keep, h_llm)
    /\ h_pc' = "done"
    /\ UNCHANGED <<h_in, h_keep, h_llm>>

HNext == Compress

----------------------------------------------------------------------------
(* Part 3: Retrieval Selector *)

MaxEntries == 4       \* data entries the customer owns

MaxCandidatesDefault == 30      \* retrieve_customer_data_context: max_candidates
MaxResultsDefault    == 3       \* retrieve_customer_data_context: max_results
BlockCharCap         == 50000   \* longest content a block keeps of its source
BlockMarkerLen       == 10      \* length of the marker appended to a cut block

\* A file name as meta_info holds it: the part before the last ".", the
\* extension after it, and whether it has upper-case letters.  NoName is an
\* absent (or empty) key.
NoName == [stem |-> "", ext |-> "", upper |-> FALSE]

\* A text without a "." (a source name, a default label) in the same shape.
TextName(s) == [stem |-> s, ext |-> "", upper |-> FALSE]

\* len() of the stems that occur
StemLen(n) ==
    CASE n.stem = "contract_v2" -> 11
      [] n.stem = "call_0001"   -> 9
      [] n.stem = "memo"        -> 4
      [] OTHER                  -> 0

\* len() of a file name: the stem, and "." plus a three-letter extension
NameChars(n) == StemLen(n) + (IF n.ext = "" THEN 0 ELSE 4)

\* Rows of customer_data as the writers of the application create them
\* (document_service, audio_service, import_service, chat_with_agent):
\* source_type, the meta_info keys the selector and the schema matcher read,
\* the row fields of an import (row: their names, rowchars: the characters of
\* their "key:value" texts) and len(content).  cfg 0 is "no data_source_id".
EntryKinds ==
    { [st |-> "document_pdf", fname |-> [stem |-> "contract_v2", ext |-> "pdf", upper |-> FALSE],
       oname |-> NoName, source_name |-> "", token |-> "", table_id |-> "", cfg |-> 0,
       row |-> {}, rowchars |-> 0, clen |-> 20],
      [st |-> "document_pdf", fname |-> [stem |-> "contract_v2", ext |-> "pdf", upper |-> TRUE],
       oname |-> NoName, source_name |-> "", token |-> "", table_id |-> "", cfg |-> 0,
       row |-> {}, rowchars |-> 0, clen |-> BlockCharCap + 1],
      [st |-> "audio_transcription", fname |-> NoName,
       oname |-> [stem |-> "call_0001", ext |-> "mp3", upper |-> FALSE],
       source_name |-> "", token |-> "", table_id |-> "", cfg |-> 0,
       row |-> {}, rowchars |-> 0, clen |-> BlockCharCap],
      [st |-> "manual_note", fname |-> [stem |-> "memo", ext |-> "txt", upper |-> FALSE],
       oname |-> NoName, source_name |-> "", token |-> "", table_id |-> "", cfg |-> 0,
       row |-> {}, rowchars |-> 0, clen |-> 5],
      [st |-> "import_record", fname |-> NoName, oname |-> NoName,
       source_name |-> "Bitable tbl1", token |-> "basA", table_id |-> "tbl1", cfg |-> 1,
       row |-> {"assets"}, rowchars |-> 8, clen |-> 30],
      [st |-> "import_record", fname |-> NoName, oname |-> NoName,
       source_name |-> "Q3 Sheet", token |-> "shtB", table_id |-> "", cfg |-> 1,
       row |-> {"assets", "debts"}, rowchars |-> BlockCharCap, clen |-> 30],
      [st |-> "agent_chat_user", fname |-> NoName, oname |-> NoName,
       source_name |-> "", token |-> "", table_id |-> "", cfg |-> 0,
       row |-> {}, rowchars |-> 0, clen |-> 10] }

\* The row with primary key id, created at time at.
EntryOf(k, id, at) == [id |-> id, at |-> at] @@ k

\* customer.data_entries when the rows were inserted one after the other.
InOrder(s) == [i \in 1..Len(s) |-> EntryOf(s[i], i, i)]

\* A token as saved_sheets holds it: url is "base" or "sheets" when the text
\* contains "/base/" or "/sheets/", body is the text after that part and
\* before "?", table is the table parameter of the query string.
TokenForm(url, body, table) == [url |-> url, body |-> body, table |-> table]

\* The configuration of the alias scenario: one table of one base is aliased.
ScenarioSheets ==
    << [token |-> TokenForm("base", "basA", "tbl1"), alias |-> "Q3 Assets"] >>

\* The query as the selector reads it: blank after strip(); the file names
\* and the stems that occur in query.lower(); the profile keywords that
\* occur in the query.
Queries ==
    { [blank |-> TRUE,  full |-> {}, stems |-> {}, kw |-> {}],
      [blank |-> FALSE, full |-> {}, stems |-> {}, kw |-> {}],
      [blank |-> FALSE, full |-> {}, stems |-> {}, kw |-> {"fengxian", "fengxianpianhao"}],
      [blank |-> FALSE, full |-> {}, stems |-> {"contract_v2"}, kw |-> {"fenxi"}],
      [blank |-> FALSE, full |-> {[stem |-> "contract_v2", ext |-> "pdf"]},
       stems |-> {"contract_v2", "call_0001", "memo"}, kw |-> {}] }

\* What the selector model does when it is invoked: the call raises, the
\* answer is no JSON, a JSON value that is no dict, or a dict whose
\* "relevant_ids" is a list of integers.
SelectorAnswers ==
    { [kind |-> k, ids |-> <<>>] : k \in {"raise", "notjson", "jsonlist"} }
    \cup { [kind |-> "ids", ids |-> s] :
             s \in {<<>>, <<1>>, <<2, 1>>, <<1, 1>>, <<99>>} }

\* An exception inside the try block of retrieve_customer_data_context that
\* is not a model failure: none, or one raised while the last block is
\* rendered.
SelectionFaults == {"none", "render"}

VARIABLES
    c_exists,    \* the customer row exists
    c_entries,   \* customer.data_entries
    c_sheets,    \* saved_sheets of the Feishu data source configuration
    r_pc,        \* "input" before the call, "done" after it returned
    r_query,     \* argument query
    r_llm,       \* behaviour of the selector model during the call
    r_fault,     \* exception raised inside the try block during the call
    r_out        \* outcome of retrieve_customer_data_context

rvars == <<r_pc, r_query, r_llm, r_fault, r_out>>
cvars == <<c_exists, c_entries, c_sheets>>

\* str.startswith("chat_history_") or str.startswith("agent_chat_") on the
\* source types that occur (lines 858-859)
ChatPrefixed(st) ==
    st \in {"chat_history_user", "chat_history_ai", "agent_chat_user", "agent_chat_ai"}

\* startswith("document_") / ("audio_") / ("audio_transcription"), line 974
DocAudioPrefixed(st) == st \in {"document_pdf", "audio_transcription"}

SeqRange(s) == {s[i] : i \in 1..Len(s)}

\* list.sort(key=created_at, reverse=True): stable, newest first
RECURSIVE SortNewestFirst(_)
SortNewestFirst(s) ==
    IF s = <<>> THEN <<>>
    ELSE LET e    == Head(s)
             rest == SortNewestFirst(Tail(s))
             k    == Cardinality({j \in 1..Len(rest) : rest[j].at > e.at})
         IN SubSeq(rest, 1, k) \o <<e>> \o SubSeq(rest, k + 1, Len(rest))

\* Mutant of CandidateEntries: the conversational logs are candidates too.
CandidateEntries_WithChat(entries) == SortNewestFirst(entries)

\* lines 855-862: the non-chat entries, newest first
CandidateEntries(entries) ==
    SortNewestFirst(SelectSeq(entries, LAMBDA e : ~ChatPrefixed(e.st)))

\* line 863: candidate_entries[:max_candidates]
LimitedCandidates(entries, max_candidates) ==
    PySliceTo(CandidateEntries(entries), max_candidates)

\* lines 865-881: profile_keywords, the Chinese words in pinyin
ProfileKeywords ==
    {"sulan", "huaxiang", "fengxian", "fengxianpianhao", "tuijin", "chengjiao", "shiji", "zuai", "jianyi",
     "xiayibu", "fenxi", "kehufenxi", "kehuqingkuang", "jieduanpanduan", "pinggu"}

\* line 882: include_all = any(k in q for k in profile_keywords)
IncludeAll(q) == q.kw \cap ProfileKeywords # {}

\* str.lower() on a file name
LowerName(n) == [n EXCEPT !.upper = FALSE]

\* filename.rsplit(".", 1)[0]
StemOf(n) == [n EXCEPT !.ext = ""]

\* "name in ql": the name occurs in the lower-cased query
NameInQuery(n, q) ==
    /\ ~n.upper
    /\ IF n.ext = "" THEN n.stem \in q.stems
       ELSE [stem |-> n.stem, ext |-> n.ext] \in q.full

\* lines 887-905: the deterministic keyword pass on one candidate
KeywordHit(e, q) ==
    LET filename      == LowerName(e.fname)
        orig_filename == LowerName(e.oname)
    IN \/ filename # NoName /\ NameInQuery(filename, q)
       \/ orig_filename # NoName /\ NameInQuery(orig_filename, q)
       \/ filename # NoName /\ StemLen(StemOf(filename)) > 5
                            /\ NameInQuery(StemOf(filename), q)
       \/ orig_filename # NoName /\ StemLen(StemOf(orig_filename)) > 5
                                 /\ NameInQuery(StemOf(orig_filename), q)

\* lines 886-905: keyword_hits, in candidate order
KeywordHits(limited, q) == SelectSeq(limited, LAMBDA e : KeywordHit(e, q))

\* entry_map[i], lines 790-795
EntryById(entries, i) == CHOOSE e \in SeqRange(entries) : e.id = i

\* _select_relevant_data_entries, lines 780-835.  called: the model was
\* invoked; picked: the entries returned, in the order of the model's ids.
SelectRelevantDataEntries(entries, answer) ==
    IF entries = <<>> THEN [called |-> FALSE, picked |-> <<>>]
    ELSE LET ids   == IF answer.kind = "ids" THEN answer.ids ELSE <<>>
             known == SelectSeq(ids, LAMBDA i : \E e \in SeqRange(entries) : e.id = i)
         IN [called |-> TRUE,
             picked |-> [k \in 1..Len(known) |-> EntryById(entries, known[k])]]

\* lines 909-911: append the entries that are not in the list yet
RECURSIVE ExtendNew(_, _)
ExtendNew(selected, more) ==
    IF more = <<>> THEN selected
    ELSE ExtendNew(IF Head(more) \in SeqRange(selected) THEN selected
                   ELSE Append(selected, Head(more)),
                   Tail(more))

\* lines 913-918: keep the first entry of every id
RECURSIVE UniqueById(_)
UniqueById(s) ==
    IF s = <<>> THEN <<>>
    ELSE LET front == UniqueById(SubSeq(s, 1, Len(s) - 1))
             e     == s[Len(s)]
         IN IF \E x \in SeqRange(front) : x.id = e.id THEN front
            ELSE Append(front, e)

\* Mutant of MergeSelected: the model's entries are put first.
MergeSelected_ModelFirst(keyword_hits, llm_selected) ==
    UniqueById(ExtendNew(llm_selected, keyword_hits))

\* lines 907-918: keyword hits, then the model's entries not yet present
MergeSelected(keyword_hits, llm_selected) ==
    UniqueById(ExtendNew(keyword_hits, llm_selected))

Reverse(s) == [i \in 1..Len(s) |-> s[Len(s) + 1 - i]]

\* The keys of a dict in insertion order: the first occurrence of each.
RECURSIVE Distinct(_)
Distinct(s) ==
    IF s = <<>> THEN <<>>
    ELSE LET front == Distinct(SubSeq(s, 1, Len(s) - 1))
         IN IF s[Len(s)] \in SeqRange(front) THEN front
            ELSE Append(front, s[Len(s)])

\* Items of content_dict (lines 929-940, 993-1003): the meta keys that are
\* not reserved
DictItems(e) ==
    Cardinality(e.row) + (IF e.fname # NoName THEN 1 ELSE 0)
                       + (IF e.oname # NoName THEN 1 ELSE 0)

\* len(" | ".join([f"{k}:{v}" ...])) for a content_dict that is not empty
DictChars(e) ==
    e.rowchars + (IF e.fname # NoName THEN 9 + NameChars(e.fname) ELSE 0)
               + (IF e.oname # NoName THEN 24 + NameChars(e.oname) ELSE 0)
               + 3 * (DictItems(e) - 1)

\* Mutant of Truncate: the content is emitted whole.
Truncate_Whole(n) == [len |-> n, cut |-> FALSE]

\* lines 952-953, 960-961, 1008-1009: content[:50000] + marker
Truncate(n) ==
    IF n > BlockCharCap THEN [len |-> BlockCharCap + BlockMarkerLen, cut |-> TRUE]
    ELSE [len |-> n, cut |-> FALSE]

\* filename or original_audio_filename or source_name or a default label
Label(e, default) ==
    IF e.fname # NoName THEN e.fname
    ELSE IF e.oname # NoName THEN e.oname
    ELSE IF e.source_name # "" THEN TextName(e.source_name)
    ELSE TextName(default)

\* One block of the result: the label and type of its header line, the
\* length of its content and whether the content ends with the marker;
\* src: the length of the source content, ids: the entries it was taken from.
Block(label, st, n, ids) ==
    [label |-> label, st |-> st, src |-> n, len |-> Truncate(n).len,
     cut |-> Truncate(n).cut, ids |-> ids]

\* lines 986-1010: the block of a selected entry
RenderEntry(e) ==
    Block(Label(e, "daorujilu"), e.st,
          IF e.st = "import_record" /\ DictItems(e) > 0 THEN DictChars(e) ELSE e.clen,
          {e.id})

\* lines 956-962: the block of an entry that is no import, override path
RenderOther(e) == Block(Label(e, "No Name"), e.st, e.clen, {e.id})

\* line 927: the key an import is grouped under
GroupName(e) ==
    IF e.source_name # "" THEN e.source_name
    ELSE IF e.table_id # "" THEN e.table_id
    ELSE IF e.token # "" THEN e.token
    ELSE "daorujilu"

\* lines 941-945: len(line) of an import, 0 when the line is empty
LineLen(e) == IF DictItems(e) > 0 THEN DictChars(e) ELSE e.clen

RECURSIVE SumLineLen(_)
SumLineLen(s) == IF s = <<>> THEN 0 ELSE LineLen(Head(s)) + SumLineLen(Tail(s))

\* lines 921-963: the override path on all candidates, oldest first: one
\* block per group of imports, then one block per other entry
OverrideBlocks(candidates) ==
    LET oldest  == Reverse(candidates)
        imports == SelectSeq(oldest, LAMBDA e : e.st = "import_record" /\ LineLen(e) > 0)
        keys    == Distinct([i \in 1..Len(imports) |-> GroupName(imports[i])])
        members(k) == SelectSeq(imports, LAMBDA e : GroupName(e) = k)
        others  == SelectSeq(oldest, LAMBDA e : e.st # "import_record")
    IN [i \in 1..Len(keys) |->
          Block(TextName(keys[i]), "import_record",
                SumLineLen(members(keys[i])) + Len(members(keys[i])) - 1,
                {e.id : e \in SeqRange(members(keys[i]))})]
       \o [i \in 1..Len(others) |-> RenderOther(others[i])]

\* lines 968-979: an entry the fallback takes
FallbackEligible(e, q) ==
    \/ e.fname # NoName \/ e.oname # NoName
    \/ DocAudioPrefixed(e.st)
    \/ IncludeAll(q) /\ e.st = "import_record"

\* Mutant of Chosen: the fallback is not cut to max_results.
Chosen_Uncapped(limited, unique, q, max_results) ==
    IF unique = <<>>
    THEN SelectSeq(limited, LAMBDA e : FallbackEligible(e, q))
    ELSE PySliceTo(unique, max_results)

\* lines 965-984: the entries to render when the override does not apply
Chosen(limited, unique, q, max_results) ==
    IF unique = <<>>
    THEN PySliceTo(SelectSeq(limited, LAMBDA e : FallbackEligible(e, q)), max_results)
    ELSE PySliceTo(unique, max_results)

\* lines 855-1010, the body of the try block.  exc: an exception left the
\* block; text: matched_context at that moment; called: the selector model
\* was invoked.
Selection(entries, q, max_candidates, max_results, answer, fault) ==
    LET candidates == CandidateEntries(entries)
        limited    == LimitedCandidates(entries, max_candidates)
        hits       == KeywordHits(limited, q)
        sel        == SelectRelevantDataEntries(limited, answer)
        unique     == MergeSelected(hits, sel.picked)
        chosen     == Chosen(limited, unique, q, max_results)
        blocks     == IF IncludeAll(q) THEN OverrideBlocks(candidates)
                      ELSE [i \in 1..Len(chosen) |-> RenderEntry(chosen[i])]
    IN IF fault = "render" /\ blocks # <<>>
       THEN [exc |-> TRUE, text |-> SubSeq(blocks, 1, Len(blocks) - 1),
             called |-> sel.called]
       ELSE [exc |-> FALSE, text |-> blocks, called |-> sel.called]

\* What the caller gets.  exc: an exception reached the caller; failed: the
\* handler of line 1011 ran; discarded: the blocks it threw away; called:
\* the selector model was invoked.
Outcome(exc, failed, text, called, discarded) ==
    [exc |-> exc, failed |-> failed, text |-> text, called |-> called,
     discarded |-> discarded]

\* Mutant of Caught: the exception is passed on to the caller.
Caught_Reraise(s) == Outcome(s.exc, FALSE, s.text, s.called, 0)

\* lines 1011-1015: "except Exception: matched_context = ''", then return
Caught(s) ==
    IF s.exc THEN Outcome(FALSE, TRUE, <<>>, s.called, Len(s.text))
    ELSE Outcome(FALSE, FALSE, s.text, s.called, 0)

\* retrieve_customer_data_context, lines 837-1015
RetrieveCustomerDataContext(exists, entries, q, max_candidates, max_results, answer, fault) ==
    IF ~exists \/ q.blank THEN Outcome(FALSE, FALSE, <<>>, FALSE, 0)
    ELSE Caught(Selection(entries, q, max_candidates, max_results, answer, fault))

CIdle ==
    /\ c_exists = TRUE
    /\ c_entries = <<>>
    /\ c_sheets = <<>>

RIdle ==
    /\ r_pc = "input"
    /\ r_query = [blank |-> TRUE, full |-> {}, stems |-> {}, kw |-> {}]
    /\ r_llm = [kind |-> "raise", ids |-> <<>>]
    /\ r_fault = "none"
    /\ r_out = Outcome(FALSE, FALSE, <<>>, FALSE, 0)

\* A row chat_service or chat_with_agent writes: no file name, no import
\* keys, a content of clen characters.
ChatEntry(st, clen) ==
    [st |-> st, fname |-> NoName, oname |-> NoName, source_name |-> "",
     token |-> "", table_id |-> "", cfg |-> 0, row |-> {}, rowchars |-> 0,
     clen |-> clen]

\* _save_agent_user_query and _save_agent_ai_response, lines 353-373, with
\* crud.create_customer_data: the row is added with the next id and the
\* current time; when the write fails (ok is FALSE) the exception is logged
\* and nothing is added.
SaveAgentEntry(entries, st, clen, ok) ==
    [exc |-> FALSE,
     entries |->
        IF ok
        THEN Append(entries,
                    EntryOf(ChatEntry(st, clen),
                            1 + MaxOf({entries[i].id : i \in 1..Len(entries)}),
                            1 + MaxOf({entries[i].at : i \in 1..Len(entries)})))
        ELSE entries]

\* The entries after a chat_with_agent call on a customer that had the given
\* entries: the query and the answer were appended (lines 1019 and 1031).
AfterChat(entries) ==
    SaveAgentEntry(SaveAgentEntry(entries, "agent_chat_user", 10, TRUE).entries,
                   "agent_chat_ai", 6, TRUE).entries

\* A customer with its data entries (or an id no customer has), among them
\* the customers an earlier chat call left its two rows with, the alias
\* configuration of the scenario, and a query.
RInit ==
    /\ c_exists \in BOOLEAN
    /\ c_entries \in
          {InOrder(s) : s \in BoundedSeq(EntryKinds, MaxEntries)}
          \cup {AfterChat(InOrder(s)) : s \in BoundedSeq(EntryKinds, MaxEntries - 2)}
    /\ ~c_exists => c_entries = <<>>
    /\ c_sheets = ScenarioSheets
    /\ r_pc = "input"
    /\ r_query \in Queries
    /\ r_llm = [kind |-> "raise", ids |-> <<>>]
    /\ r_fault = "none"
    /\ r_out = Outcome(FALSE, FALSE, <<>>, FALSE, 0)

\* One call of retrieve_customer_data_context(customer_id, query) with the
\* default max_candidates and max_results.
Retrieve ==
    /\ r_pc = "input"
    /\ \E answer \in SelectorAnswers, fault \in SelectionFaults :
         /\ r_llm' = answer
         /\ r_fault' = fault
         /\ r_out' = RetrieveCustomerDataContext(c_exists, c_entries, r_query,
                        MaxCandidatesDefault, MaxResultsDefault, answer, fault)
    /\ r_pc' = "done"
    /\ UNCHANGED <<r_query, cvars>>

RNext == Retrieve

----------------------------------------------------------------------------
(* Part 4: Schema Matcher *)

MaxRecords == 2       \* data entries of the customer the matcher reads

VARIABLES
    t_pc,        \* number of match_customer_schema calls that returned
    t_query,     \* argument query of the calls
    t_res        \* the results of the calls, in call order

tvars == <<t_pc, t_query, t_res>>

\* str.startswith("bas") / ("sht") on the token bodies that occur
StartsWithBas(body) == body \in {"basA"}
StartsWithSht(body) == body \in {"shtB"}

\* _parse_feishu_token, lines 82-100: (clean_token, table_id)
ParseFeishuToken(raw) ==
    IF raw.body = "" THEN <<"", "">>
    ELSE IF raw.url = "base" \/ StartsWithBas(raw.body) THEN <<raw.body, raw.table>>
    ELSE <<raw.body, "">>

\* DataSourceConfig.config_json["saved_sheets"] of configuration 1
SheetConfigs ==
    { <<>>,
      << [token |-> TokenForm("base", "basA", "tbl1"), alias |-> "Q3 Assets"] >>,
      << [token |-> TokenForm("base", "basA", "tbl1"), alias |-> "Q3 Assets"],
         [token |-> TokenForm("base", "basA", "tbl2"), alias |-> "Q4 Assets"] >>,
      << [token |-> TokenForm("sheets", "shtB", "tbl1"), alias |-> "Q4 Assets"],
         [token |-> TokenForm("", "basA", ""), alias |-> ""] >> }

\* _get_feishu_alias_map, lines 102-125: the saved sheets that write into
\* the mapping of config_id; none for a record without data_source_id or
\* with the id of no configuration.
AliasSheets(config_id, sheets) ==
    IF config_id # 1 THEN <<>>
    ELSE SelectSeq(sheets, LAMBDA s : /\ s.token.body # "" /\ s.alias # ""
                                      /\ ParseFeishuToken(s.token)[1] # "")

\* The keys a saved sheet writes, lines 121-123: "clean:table" and "clean"
SheetKeys(s) ==
    LET p == ParseFeishuToken(s.token)
    IN IF p[2] # "" THEN {<<p[1], p[2]>>, <<p[1], "">>} ELSE {<<p[1], "">>}

\* Mutant of AliasGet: no key is ever found.
AliasGet_Missing(written, key) == ""

\* alias_map.get(key): the alias of the last sheet that wrote the key, ""
\* when no sheet did
AliasGet(written, key) ==
    LET writers == {i \in 1..Len(written) : key \in SheetKeys(written[i])}
    IN IF writers = {} THEN ""
       ELSE written[CHOOSE i \in writers : \A j \in writers : j <= i].alias

\* _looks_like_internal_table_name, lines 127-135, on the names that occur
LooksLikeInternalTableName(name) ==
    name \in {"Bitable tbl1", "Bitable tbl2", "tbl1", "tbl2", "shtB"}

\* _resolve_import_table_name, lines 137-154
ResolveImportTableName(e, sheets) ==
    LET base_name == IF e.source_name # "" THEN e.source_name
                     ELSE IF e.table_id # "" THEN e.table_id
                     ELSE IF e.token # "" THEN e.token
                     ELSE "daorujilu"
        alias_map == AliasSheets(e.cfg, sheets)
        by_table  == IF e.table_id # "" THEN AliasGet(alias_map, <<e.token, e.table_id>>)
                     ELSE ""
        by_token  == AliasGet(alias_map, <<e.token, "">>)
    IN IF e.source_name # "" /\ ~LooksLikeInternalTableName(e.source_name)
       THEN e.source_name
       ELSE IF e.token # "" /\ by_table # "" THEN by_table
       ELSE IF e.token # "" /\ by_token # "" THEN by_token
       ELSE base_name

\* sorted(customer.data_entries, key=created_at): stable, oldest first
RECURSIVE SortOldestFirst(_)
SortOldestFirst(s) ==
    IF s = <<>> THEN <<>>
    ELSE LET e    == Head(s)
             rest == SortOldestFirst(Tail(s))
             k    == Cardinality({j \in 1..Len(rest) : rest[j].at < e.at})
         IN SubSeq(rest, 1, k) \o <<e>> \o SubSeq(rest, k + 1, Len(rest))

RECURSIVE Flatten(_)
Flatten(ss) == IF ss = <<>> THEN <<>> ELSE Head(ss) \o Flatten(Tail(ss))

\* The names that occur, in the order Python compares strings
CodepointOrder ==
    << "Bitable tbl1", "Bitable tbl2", "Q3 Assets", "Q3 Sheet",
       "Q4 Assets", "assets", "basA", "daorujilu",
       "debts", "filename", "original_audio_filename", "shtB",
       "tbl1", "tbl2" >>

Rank(name) == CHOOSE i \in 1..Len(CodepointOrder) : CodepointOrder[i] = name

\* The names of S, smallest first
ByRank(S) ==
    [i \in 1..Cardinality(S) |->
        CHOOSE x \in S : Cardinality({y \in S : Rank(y) < Rank(x)}) = i - 1]

\* Mutant of PySorted: the elements are returned in iteration order.
PySorted_AsIterated(s) == s

\* sorted(a_set), lines 219-222; s is the set in its iteration order
PySorted(s) == ByRank(SeqRange(s))

\* The characters of the table and field names that occur
Chars(name) ==
    CASE name = "Bitable tbl1" -> <<"B", "i", "t", "a", "b", "l", "e", " ", "t", "b", "l", "1">>
      [] name = "Bitable tbl2" -> <<"B", "i", "t", "a", "b", "l", "e", " ", "t", "b", "l", "2">>
      [] name = "Q3 Assets" -> <<"Q", "3", " ", "A", "s", "s", "e", "t", "s">>
      [] name = "Q3 Sheet" -> <<"Q", "3", " ", "S", "h", "e", "e", "t">>
      [] name = "Q4 Assets" -> <<"Q", "4", " ", "A", "s", "s", "e", "t", "s">>
      [] name = "assets" -> <<"a", "s", "s", "e", "t", "s">>
      [] name = "basA" -> <<"b", "a", "s", "A">>
      [] name = "daorujilu" -> <<"d", "a", "o", "r", "u", "j", "i", "l", "u">>
      [] name = "debts" -> <<"d", "e", "b", "t", "s">>
      [] name = "filename" -> <<"f", "i", "l", "e", "n", "a", "m", "e">>
      [] name = "original_audio_filename" -> <<"o", "r", "i", "g", "i", "n", "a", "l", "_", "a", "u", "d", "i", "o", "_", "f", "i", "l", "e", "n", "a", "m", "e">>
      [] name = "shtB" -> <<"s", "h", "t", "B">>
      [] name = "tbl1" -> <<"t", "b", "l", "1">>
      [] name = "tbl2" -> <<"t", "b", "l", "2">>
      [] OTHER -> <<>>

\* The characters the regular expression of line 61 deletes; the quotes, the
\* backtick and the full-width punctuation marks are written by name.
Separators ==
    {" ", "-", "_", "/", ",", ":", ";", "[", "]", "(", ")", "{", "}", "<", ">",
     "squote", "backtick", "fw-comma", "fw-period", "fw-semicolon", "fw-enum-comma",
     "fw-lbracket", "fw-rbracket", "fw-lparen", "fw-rparen", "dquote"}

\* The words the regular expression of line 184 deletes, in pinyin; each is
\* one symbol of a query.
FillerWords ==
    {"<qing>", "<bangwo>", "<geiwo>", "<woyao>", "<woxiang>", "<chayixia>",
     "<chaxia>", "<kankan>", "<kanxia>", "<chakan>", "<chaxun>", "<liechu>",
     "<zhanshi>", "<yixia>", "<tade>", "<tade-f>", "<zhege>", "<zhewei>",
     "<gaikehu>"}

\* str.lower() on one character
LowerChar(c) ==
    CASE c = "A" -> "a" [] c = "B" -> "b" [] c = "Q" -> "q" [] c = "S" -> "s"
      [] OTHER -> c

\* _normalize_match_text, lines 56-61
NormalizeMatchText(t) ==
    LET kept == SelectSeq(t, LAMBDA c : c \notin Separators)
    IN [i \in 1..Len(kept) |-> LowerChar(kept[i])]

\* re.sub of line 184: the query without its filler words
StripFillers(t) == SelectSeq(t, LAMBDA c : c \notin FillerWords)

\* "a in b" on texts
IsInfix(a, b) ==
    \E i \in 0..(Len(b) - Len(a)) : SubSeq(b, i + 1, i + Len(a)) = a

\* The queries put to the matcher.
SchemaQueries ==
    { <<>>,
      <<"<kankan>", "Q", "3", " ", "A", "s", "s", "e", "t", "s">>,
      <<"a", "s", "s", "e", "t", "s">>,
      <<"<chaxun>", " ", "t", "b", "l", "1">>,
      <<"<geiwo>", "Q", "3">>,
      <<"s", "<yixia>">> }

\* Imports as import_service writes them, and a document.
SchemaKinds ==
    { k \in EntryKinds : k.st \in {"import_record", "document_pdf"} /\ ~k.fname.upper }
    \cup
    { [st |-> "import_record", fname |-> NoName, oname |-> NoName,
       source_name |-> "Bitable tbl2", token |-> "basA", table_id |-> "tbl2", cfg |-> 1,
       row |-> {"debts"}, rowchars |-> 9, clen |-> 30],
      [st |-> "import_record", fname |-> NoName, oname |-> NoName,
       source_name |-> "", token |-> "shtB", table_id |-> "", cfg |-> 1,
       row |-> {"assets"}, rowchars |-> 8, clen |-> 30],
      [st |-> "import_record", fname |-> NoName, oname |-> NoName,
       source_name |-> "Bitable tbl1", token |-> "basA", table_id |-> "tbl1", cfg |-> 0,
       row |-> {"assets"}, rowchars |-> 8, clen |-> 30] }

\* The meta keys that are row fields, lines 162, 170: not reserved, not
\* starting with "_"
Fields(e) ==
    e.row \cup (IF e.fname # NoName THEN {"filename"} ELSE {})
          \cup (IF e.oname # NoName THEN {"original_audio_filename"} ELSE {})

\* The empty schema of line 159
NoSchema == [table_names |-> <<>>, field_names |-> <<>>, field_to_tables |-> <<>>]

\* build_customer_import_schema, lines 156-179.  rows: customer.data_entries
\* in the order the database hands them out.  table_names and field_names
\* are the keys of tables and field_to_tables in insertion order;
\* field_to_tables[i] are the tables of field_names[i].
BuildCustomerImportSchema(exists, rows, sheets) ==
    IF ~exists THEN NoSchema
    ELSE LET imports == SelectSeq(SortOldestFirst(rows), LAMBDA e : e.st = "import_record")
             name(i) == ResolveImportTableName(imports[i], sheets)
             fields  == Distinct(Flatten([i \in 1..Len(imports) |-> ByRank(Fields(imports[i]))]))
             having(f) == SelectSeq([i \in 1..Len(imports) |-> i],
                                    LAMBDA i : f \in Fields(imports[i]))
         IN [table_names |-> Distinct([i \in 1..Len(imports) |-> name(i)]),
             field_names |-> fields,
             field_to_tables |->
                 [j \in 1..Len(fields) |->
                     Distinct([i \in 1..Len(having(fields[j])) |-> name(having(fields[j])[i])])]]

\* lines 193-198, 205-212: the normalized name occurs in the normalized query
ExplicitHit(name, norm_query) ==
    LET n == NormalizeMatchText(Chars(name))
    IN n # <<>> /\ IsInfix(n, norm_query)

\* lines 199-200, 213-216, reached when the explicit test failed: the core
\* of the query occurs in the normalized name
FuzzyHit(name, norm_query, norm_core) ==
    LET n == NormalizeMatchText(Chars(name))
    IN /\ n # <<>> /\ ~IsInfix(n, norm_query)
       /\ norm_core # <<>> /\ Len(norm_core) >= 2 /\ IsInfix(norm_core, n)

\* match_customer_schema, lines 181-224
MatchCustomerSchema(exists, rows, sheets, query) ==
    LET norm_query == NormalizeMatchText(query)
        norm_core  == NormalizeMatchText(StripFillers(query))
        schema     == BuildCustomerImportSchema(exists, rows, sheets)
        explicit   == SelectSeq(schema.table_names, LAMBDA t : ExplicitHit(t, norm_query))
        fuzzy      == SelectSeq(schema.table_names,
                                LAMBDA t : FuzzyHit(t, norm_query, norm_core))
        hit        == SelectSeq([j \in 1..Len(schema.field_names) |-> j],
                         LAMBDA j : \/ ExplicitHit(schema.field_names[j], norm_query)
                                    \/ FuzzyHit(schema.field_names[j], norm_query, norm_core))
    IN [explicit_tables |-> PySorted(explicit),
        fuzzy_tables    |-> PySorted(fuzzy),
        field_tables    |-> PySorted(Distinct(Flatten(
                               [i \in 1..Len(hit) |-> schema.field_to_tables[hit[i]]]))),
        matched_fields  |-> PySorted([i \in 1..Len(hit) |-> schema.field_names[hit[i]]]),
        schema          |-> schema]

\* The orders in which the database can hand out n rows.
RowOrders(n) == {p \in [1..n -> 1..n] : \A i, j \in 1..n : i # j => p[i] # p[j]}

TIdle ==
    /\ t_pc = 0
    /\ t_query = <<>>
    /\ t_res = <<>>

\* A customer with imports (created one after the other, or all at the same
\* time by one bulk import), an alias configuration and a query.
TInit ==
    /\ c_exists \in BOOLEAN
    /\ c_sheets \in SheetConfigs
    /\ \E s \in BoundedSeq(SchemaKinds, MaxRecords) :
         \/ c_entries = InOrder(s)
         \/ c_entries = [i \in 1..Len(s) |-> EntryOf(s[i], i, 1)]
    /\ ~c_exists => c_entries = <<>>
    /\ t_pc = 0
    /\ t_query \in SchemaQueries
    /\ t_res = <<>>

\* One call of match_customer_schema(customer_id, query); the relationship
\* customer.data_entries has no order_by.
Match ==
    /\ t_pc < 2
    /\ \E p \in RowOrders(Len(c_entries)) :
         t_res' = Append(t_res, MatchCustomerSchema(c_exists,
                     [i \in 1..Len(c_entries) |-> c_entries[p[i]]], c_sheets, t_query))
    /\ t_pc' = t_pc + 1
    /\ UNCHANGED <<t_query, cvars>>

TNext == Match

----------------------------------------------------------------------------
(* Part 5: Context Assembler and chat_with_agent *)

MaxAgentEntries == 2  \* data entries of the customer before the chat call

LogWindow == 10       \* newest entries the raw log is taken from

\* Rows the customer of a chat call has: the two kinds of conversational
\* log, a document and an imported row.
AgentKinds ==
    { ChatEntry("chat_history_user", 12), ChatEntry("chat_history_ai", 15) }
    \cup { k \in EntryKinds : k.st = "document_pdf" /\ ~k.fname.upper }
    \cup { k \in EntryKinds : k.source_name = "Bitable tbl1" }

\* A history of KeepLastDefault + 1 qualifying turns: the summarizer runs.
LongHistory ==
    [i \in 1..(KeepLastDefault + 1) |->
        [dict |-> TRUE,
         role |-> IF i % 2 = 1 THEN "user" ELSE "assistant",
         content |-> [tag |-> "q", len |-> 5, blank |-> FALSE]]]

\* The history argument: none, one turn, entries none of which is a turn,
\* and a history longer than keep_last.
AgentHistories ==
    { <<>>,
      << [dict |-> TRUE, role |-> "user",
          content |-> [tag |-> "q", len |-> 5, blank |-> FALSE]] >>,
      << [dict |-> TRUE, role |-> "system",
          content |-> [tag |-> "s", len |-> 4, blank |-> FALSE]],
         [dict |-> FALSE, role |-> "", content |-> NoContent] >>,
      LongHistory }

\* What the selector model does during a chat call: it raises, its answer
\* is no JSON, or it names entries.
AgentSelectorAnswers ==
    { a \in SelectorAnswers :
        a.kind \in {"raise", "notjson"} \/ a.ids \in {<<1>>, <<2, 1>>} }

\* An exception of _compress_history_messages that reaches line 535.
CompressFaults == {"none", "raise"}

\* response.content of the chat model: md, it carries Markdown markup;
\* plain, the characters that are no markup.  kind "raise": get_llm or
\* invoke raises.
ChatOutcomes ==
    { [kind |-> "raise", md |-> FALSE, plain |-> 0],
      [kind |-> "text",  md |-> FALSE, plain |-> 0],
      [kind |-> "text",  md |-> FALSE, plain |-> 6],
      [kind |-> "text",  md |-> TRUE,  plain |-> 6] }

VARIABLES
    a_pc,        \* position in chat_with_agent: "input", "built", "saved",
                 \* "answered", "done" (returned), "raised"
    a_query,     \* argument query
    a_rag,       \* argument rag_context is not empty
    a_hist,      \* argument history
    a_msgs,      \* messages, the list _build_agent_messages returned
    a_faults,    \* the failures that happened during the call
    a_calls,     \* the models invoked during the call
    a_result     \* what the caller gets: a text or an exception

avars == <<a_pc, a_query, a_rag, a_hist, a_msgs, a_faults, a_calls, a_result>>

NoResult == [kind |-> "none", md |-> FALSE, plain |-> 0]

\* lines 480-484: the chat_history rows among the LogWindow newest rows,
\* oldest first; each one adds a line to customer_logs.
RecentLogs(entries) ==
    LET newest == PySliceTo(SortNewestFirst(entries), LogWindow)
    IN SelectSeq(Reverse(newest),
                 LAMBDA e : e.st \in {"chat_history_user", "chat_history_ai"})

\* One message of the list.  block: which part of the prompt it is; items:
\* the pieces of content after its header; placeholder: the content is the
\* "no recent chat" text of line 487.
Message(block, items, placeholder) ==
    [block |-> block, items |-> items, placeholder |-> placeholder]

\* lines 479-487 and 526-527: customer_logs is the placeholder when no line
\* was added, so the "if customer_logs" of line 526 finds it non-empty.
LogMessages(entries) ==
    LET lines == RecentLogs(entries)
        customer_logs == IF lines = <<>> THEN Message("logs", 0, TRUE)
                         ELSE Message("logs", Len(lines), FALSE)
    IN IF customer_logs.items > 0 \/ customer_logs.placeholder
       THEN <<customer_logs>> ELSE <<>>

\* lines 528-529
KnowledgeMessages(rag) ==
    IF rag THEN <<Message("knowledge", 1, FALSE)>> ELSE <<>>

\* lines 530-531: matched_context is the rendered blocks
SelectorMessages(matched) ==
    IF matched.text # <<>>
    THEN <<Message("selector", Len(matched.text), FALSE)>> ELSE <<>>

\* lines 532-538: the compressed history, or nothing when the compression
\* raised
HistoryMessages(history, outcome, cfault) ==
    IF history = <<>> THEN <<>>
    ELSE IF cfault = "raise" THEN <<>>
    ELSE LET history_msgs == CompressHistoryMessages(history, KeepLastDefault, outcome)
         IN [i \in 1..Len(history_msgs) |-> Message("history", 1, FALSE)]

\* Mutant of AssembleMessages: the selector output is put before the raw log.
AssembleMessages_SelectorFirst(logs, knowledge, selector, history, query) ==
    << Message("system", 1, FALSE), Message("basic", 4, FALSE) >>
    \o selector \o knowledge \o logs \o history \o <<query>>

\* lines 517-539: the list in the order the code appends to it
AssembleMessages(logs, knowledge, selector, history, query) ==
    << Message("system", 1, FALSE), Message("basic", 4, FALSE) >>
    \o logs \o knowledge \o selector \o history \o <<query>>

\* The summarizer model was invoked by the compression and raised.
SummarizerFailed(history, outcome, cfault) ==
    /\ history # <<>>
    /\ cfault = "none"
    /\ outcome = "raise"
    /\ LET m == CompressHistoryMessages(history, KeepLastDefault, outcome)
       IN m # <<>> /\ m[1].summary.called

\* The summarizer model was invoked by the compression.
SummarizerCalled(history, outcome, cfault) ==
    /\ history # <<>>
    /\ cfault = "none"
    /\ LET m == CompressHistoryMessages(history, KeepLastDefault, outcome)
       IN m # <<>> /\ m[1].summary.called

\* Mutant of LookupFailed: the selection ran before the customer was looked
\* up.
LookupFailed_AfterSelection(entries) ==
    [exc |-> "ValueError", messages |-> <<>>, faults |-> {},
     calls |-> {"selector_model"}]

\* lines 475-477: no customer has the id; nothing was read or invoked yet
LookupFailed(entries) ==
    [exc |-> "ValueError", messages |-> <<>>, faults |-> {}, calls |-> {}]

\* _build_agent_messages, lines 474-540.  exc: the exception it raises;
\* faults: the failures it recovered from; calls: the models it invoked.
BuildAgentMessages(exists, entries, query, history, rag, answer, fault, outcome, cfault) ==
    IF ~exists
    THEN LookupFailed(entries)
    ELSE LET matched ==
                 RetrieveCustomerDataContext(exists, entries, query,
                     MaxCandidatesDefault, MaxResultsDefault, answer, fault)
         IN [exc |-> "none",
             messages |->
                 AssembleMessages(LogMessages(entries), KnowledgeMessages(rag),
                     SelectorMessages(matched),
                     HistoryMessages(history, outcome, cfault),
                     Message("query", IF query.blank THEN 0 ELSE 1, FALSE)),
             faults |->
                 (IF matched.called /\ answer.kind = "raise"
                      THEN {"selector_model"} ELSE {})
                 \cup (IF matched.failed THEN {"selection"} ELSE {})
                 \cup (IF SummarizerFailed(history, outcome, cfault)
                      THEN {"summarizer_model"} ELSE {})
                 \cup (IF history # <<>> /\ cfault = "raise"
                      THEN {"compression"} ELSE {}),
             calls |->
                 (IF matched.called THEN {"selector_model"} ELSE {})
                 \cup (IF SummarizerCalled(history, outcome, cfault)
                      THEN {"summarizer_model"} ELSE {})]

\* to_plain_text, lines 63-80: an empty text is returned as it is, otherwise
\* the markup is removed and the rest stays.
ToPlainText(text) ==
    IF text.plain = 0 /\ ~text.md THEN text
    ELSE [text EXCEPT !.md = FALSE]

ErrorPrefixLen == 15  \* characters of the prefix of the error text

\* Mutant of InvokeAgent: a failure of the chat model reaches the caller.
InvokeAgent_Propagates(chat) ==
    IF chat.kind = "raise"
    THEN [exc |-> TRUE, result |-> [kind |-> "Exception", md |-> FALSE, plain |-> 0]]
    ELSE [exc |-> FALSE,
          result |-> ToPlainText([kind |-> "text", md |-> chat.md, plain |-> chat.plain])]

\* chat_with_agent, lines 1020-1030: the answer of the chat model as plain
\* text, or the error text when get_llm, invoke or to_plain_text raised.
InvokeAgent(chat) ==
    IF chat.kind = "raise"
    THEN [exc |-> FALSE,
          result |-> [kind |-> "marker", md |-> FALSE, plain |-> ErrorPrefixLen]]
    ELSE [exc |-> FALSE,
          result |-> ToPlainText([kind |-> "text", md |-> chat.md, plain |-> chat.plain])]

AIdle ==
    /\ a_pc = "input"
    /\ a_query = [blank |-> TRUE, full |-> {}, stems |-> {}, kw |-> {}]
    /\ a_rag = FALSE
    /\ a_hist = <<>>
    /\ a_msgs = <<>>
    /\ a_faults = {}
    /\ a_calls = {}
    /\ a_result = NoResult

\* A customer with its data entries (or an id no customer has) and the
\* arguments of one chat_with_agent call.
AInit ==
    /\ c_exists \in BOOLEAN
    /\ c_entries \in {InOrder(s) : s \in BoundedSeq(AgentKinds, MaxAgentEntries)}
    /\ ~c_exists => c_entries = <<>>
    /\ c_sheets = ScenarioSheets
    /\ a_pc = "input"
    /\ a_query \in Queries
    /\ a_rag \in BOOLEAN
    /\ a_hist \in AgentHistories
    /\ a_msgs = <<>>
    /\ a_faults = {}
    /\ a_calls = {}
    /\ a_result = NoResult

\* line 1018: messages = self._build_agent_messages(...)
ABuild ==
    /\ a_pc = "input"
    /\ \E answer \in AgentSelectorAnswers, fault \in SelectionFaults,
          outcome \in LlmOutcomes, cfault \in CompressFaults :
         LET b == BuildAgentMessages(c_exists, c_entries, a_query, a_hist,
                                     a_rag, answer, fault, outcome, cfault)
         IN /\ a_msgs' = b.messages
            /\ a_faults' = b.faults
            /\ a_calls' = b.calls
            /\ a_pc' = IF b.exc = "none" THEN "built" ELSE "raised"
            /\ a_result' = IF b.exc = "none" THEN a_result
                           ELSE [kind |-> b.exc, md |-> FALSE, plain |-> 0]
    /\ UNCHANGED <<a_query, a_rag, a_hist, cvars>>

\* line 1019: self._save_agent_user_query(customer_id, query)
ASaveQuery ==
    /\ a_pc = "built"
    /\ \E ok \in BOOLEAN :
         LET s == SaveAgentEntry(c_entries, "agent_chat_user",
                                 IF a_query.blank THEN 0 ELSE 10, ok)
         IN /\ c_entries' = s.entries
            /\ a_faults' = a_faults \cup (IF ok THEN {} ELSE {"save_query"})
            /\ a_pc' = IF s.exc THEN "raised" ELSE "saved"
            /\ a_result' = IF s.exc THEN [kind |-> "Exception", md |-> FALSE, plain |-> 0]
                           ELSE a_result
    /\ UNCHANGED <<a_query, a_rag, a_hist, a_msgs, a_calls, c_exists, c_sheets>>

\* lines 1020-1030: the chat model is invoked with the messages
AInvoke ==
    /\ a_pc = "saved"
    /\ \E chat \in ChatOutcomes :
         LET r == InvokeAgent(chat)
         IN /\ a_result' = r.result
            /\ a_faults' = a_faults \cup
                   (IF chat.kind = "raise" THEN {"chat_model"} ELSE {})
            /\ a_calls' = a_calls \cup {"chat_model"}
            /\ a_pc' = IF r.exc THEN "raised" ELSE "answered"
    /\ UNCHANGED <<a_query, a_rag, a_hist, a_msgs, cvars>>

\* lines 1031-1032: self._save_agent_ai_response(...), return
ASaveResponse ==
    /\ a_pc = "answered"
    /\ \E ok \in BOOLEAN :
         LET s == SaveAgentEntry(c_entries, "agent_chat_ai", a_result.plain, ok)
         IN /\ c_entries' = s.entries
            /\ a_faults' = a_faults \cup (IF ok THEN {} ELSE {"save_response"})
            /\ a_pc' = IF s.exc THEN "raised" ELSE "done"
            /\ a_result' = IF s.exc THEN [kind |-> "Exception", md |-> FALSE, plain |-> 0]
                           ELSE a_result
    /\ UNCHANGED <<a_query, a_rag, a_hist, a_msgs, a_calls, c_exists, c_sheets>>

ANext == ABuild \/ ASaveQuery \/ AInvoke \/ ASaveResponse

----------------------------------------------------------------------------
(* Part 6: chat_with_agent_stream *)

MaxChunks == 3        \* chunks the model stream produces in one run

\* What the model stream hands out when it is asked for a chunk: a chunk
\* whose content is a token ("t1", "t2"), a chunk without content (content
\* "" or None, written ""), or an exception ("raise": get_llm, astream or the
\* stream itself failed).
ChunkKinds == {"t1", "t2", ""}

\* The streams of the model: chunks, then the normal end or an exception.
ModelStreams ==
    BoundedSeq(ChunkKinds, MaxChunks)
    \cup {Append(s, "raise") : s \in BoundedSeq(ChunkKinds, MaxChunks)}

\* The customers of a streaming run: no entry, a document, a raw log row.
StreamEntries ==
    {<<>>} \cup
    {InOrder(<<k>>) : k \in {x \in AgentKinds : x.st \in {"document_pdf", "chat_history_user"}}}

VARIABLES
    a_mode,      \* "sync": chat_with_agent, "stream": chat_with_agent_stream
    g_model,     \* what the model stream still has to hand out
    g_produced,  \* the chunks the model stream handed out, in order
    g_chunk,     \* the chunk the loop body is working on
    g_resp,      \* response_content: the tokens added to it
    g_yielded    \* the tokens yielded to the caller, in order

gvars == <<a_mode, g_model, g_produced, g_chunk, g_resp, g_yielded>>

GIdle ==
    /\ a_mode = "sync"
    /\ g_model = <<>>
    /\ g_produced = <<>>
    /\ g_chunk = ""
    /\ g_resp = <<>>
    /\ g_yielded = <<>>

\* One call of chat_with_agent or of chat_with_agent_stream, the latter with
\* the stream its model will produce.
GInit ==
    /\ c_exists \in BOOLEAN
    /\ c_entries \in StreamEntries
    /\ ~c_exists => c_entries = <<>>
    /\ c_sheets = ScenarioSheets
    /\ a_pc = "input"
    /\ a_query \in {q \in Queries : q.full = {}}
    /\ a_rag \in BOOLEAN
    /\ a_hist = <<>>
    /\ a_msgs = <<>>
    /\ a_faults = {}
    /\ a_calls = {}
    /\ a_result = NoResult
    /\ a_mode \in {"sync", "stream"}
    /\ g_model \in ModelStreams
    /\ a_mode = "sync" => g_model = <<>>
    /\ g_produced = <<>>
    /\ g_chunk = ""
    /\ g_resp = <<>>
    /\ g_yielded = <<>>

\* Mutant of TokenOf: a chunk without content is yielded as a token too.
TokenOf_KeepEmpty(chunk) == <<chunk>>

\* lines 1044-1045: token = getattr(chunk, "content", None); if token
TokenOf(chunk) == IF chunk # "" THEN <<chunk>> ELSE <<>>

\* lines 1048-1051: the text of the error, kept as response_content when no
\* token was received
ErrorToken == "error"

\* lines 1038-1043 and 1048-1052: the caller asks for the next token, the
\* generator asks the model stream for the next chunk.  The stream ends, or
\* raises (the handler yields the error text), or hands out a chunk.
GRequest ==
    /\ a_mode = "stream"
    /\ a_pc \in {"saved", "loop"}
    /\ a_calls' = a_calls \cup {"chat_model"}
    /\ IF g_model = <<>>
       THEN /\ a_pc' = "after"
            /\ UNCHANGED <<g_model, g_produced, g_chunk, g_resp, g_yielded, a_faults>>
       ELSE IF Head(g_model) = "raise"
       THEN /\ a_pc' = "yielded_error"
            /\ g_model' = <<>>
            /\ g_resp' = IF g_resp # <<>> THEN g_resp ELSE <<ErrorToken>>
            /\ g_yielded' = Append(g_yielded, ErrorToken)
            /\ a_faults' = a_faults \cup {"chat_model"}
            /\ UNCHANGED <<g_produced, g_chunk>>
       ELSE /\ a_pc' = "got"
            /\ g_chunk' = Head(g_model)
            /\ g_model' = Tail(g_model)
            /\ g_produced' = Append(g_produced, Head(g_model))
            /\ UNCHANGED <<g_resp, g_yielded, a_faults>>
    /\ UNCHANGED <<a_mode, a_query, a_rag, a_hist, a_msgs, a_result, cvars>>

\* lines 1044-1047: the loop body; a token is added to response_content and
\* yielded, the generator is suspended at the yield
GYield ==
    /\ a_mode = "stream"
    /\ a_pc = "got"
    /\ LET token == TokenOf(g_chunk)
       IN /\ g_resp' = g_resp \o token
          /\ g_yielded' = g_yielded \o token
          /\ a_pc' = IF token # <<>> THEN "yielded" ELSE "loop"
    /\ UNCHANGED <<a_mode, g_model, g_produced, g_chunk, a_query, a_rag, a_hist,
                   a_msgs, a_faults, a_calls, a_result, cvars>>

\* The caller asks for the next token: the generator goes on after its yield.
GResume ==
    /\ a_mode = "stream"
    /\ a_pc \in {"yielded", "yielded_error"}
    /\ a_pc' = IF a_pc = "yielded" THEN "loop" ELSE "after"
    /\ UNCHANGED <<gvars, a_query, a_rag, a_hist, a_msgs, a_faults, a_calls,
                   a_result, cvars>>

\* The caller stops consuming: the suspended generator is closed.  The
\* GeneratorExit (or CancelledError) raised at the yield is no Exception, so
\* the handler of line 1048 does not run, and nothing after the loop does.
GClose ==
    /\ a_mode = "stream"
    /\ a_pc \in {"yielded", "yielded_error"}
    /\ a_pc' = "closed"
    /\ UNCHANGED <<gvars, a_query, a_rag, a_hist, a_msgs, a_faults, a_calls,
                   a_result, cvars>>

\* lines 1053-1054: response_content as plain text is saved, the generator
\* ends
GFinish ==
    /\ a_mode = "stream"
    /\ a_pc = "after"
    /\ \E ok \in BOOLEAN :
         LET text == ToPlainText([kind |-> IF g_resp = <<ErrorToken>> THEN "marker" ELSE "text",
                                  md |-> FALSE, plain |-> Len(g_resp)])
             s    == SaveAgentEntry(c_entries, "agent_chat_ai", text.plain, ok)
         IN /\ a_result' = text
            /\ c_entries' = s.entries
            /\ a_faults' = a_faults \cup (IF ok THEN {} ELSE {"save_response"})
            /\ a_pc' = IF s.exc THEN "raised" ELSE "done"
    /\ UNCHANGED <<gvars, a_query, a_rag, a_hist, a_msgs, a_calls, c_exists, c_sheets>>

\* chat_with_agent_stream: lines 1035-1036 are those of chat_with_agent
GNext ==
    \/ (a_mode = "stream" /\ (ABuild \/ ASaveQuery) /\ UNCHANGED gvars)
    \/ GRequest \/ GYield \/ GResume \/ GClose \/ GFinish

----------------------------------------------------------------------------
(* Part 7: _chunk_text of the Knowledge Vector Index *)

MaxChunkSize == 4     \* largest chunk_size besides the default
MaxTextLen == 9       \* longest stripped text besides the default ones

ChunkSizeDefault == 800   \* chunk_size of _chunk_text
OverlapDefault == 100     \* overlap of _chunk_text

\* A text as _chunk_text reads it: lead and trail are the whitespace
\* characters str.strip() removes, len the characters between them.  The
\* arguments: the defaults with texts around the window size, and every
\* small chunk_size > overlap >= 0 with every short text.
ChunkInputs ==
    { [lead |-> l, len |-> n, trail |-> t, chunk_size |-> ChunkSizeDefault, overlap |-> OverlapDefault] :
        l \in 0..1, t \in 0..1,
        n \in {0, 1, OverlapDefault, ChunkSizeDefault - 1, ChunkSizeDefault, ChunkSizeDefault + 1,
               2 * ChunkSizeDefault - OverlapDefault, 2 * ChunkSizeDefault - OverlapDefault + 1,
               3 * ChunkSizeDefault} }
    \cup
    { [lead |-> l, len |-> n, trail |-> t, chunk_size |-> s, overlap |-> o] :
        l \in 0..1, t \in 0..1, n \in 0..MaxTextLen,
        s \in 1..MaxChunkSize, o \in 0..(MaxChunkSize - 1) }

VARIABLES
    ch_pc,       \* "input", "loop" (at the while test), "done" (returned)
    ch_in,       \* the arguments
    ch_start,    \* start
    ch_chunks    \* chunks: each the slice cleaned[from:to]

chvars == <<ch_pc, ch_in, ch_start, ch_chunks>>

ChIdle ==
    /\ ch_pc = "input"
    /\ ch_in = [lead |-> 0, len |-> 0, trail |-> 0,
                chunk_size |-> ChunkSizeDefault, overlap |-> OverlapDefault]
    /\ ch_start = 0
    /\ ch_chunks = <<>>

ChInit ==
    /\ ch_pc = "input"
    /\ ch_in \in {x \in ChunkInputs : x.chunk_size > x.overlap}
    /\ ch_start = 0
    /\ ch_chunks = <<>>

\* line 96: len((text or "").strip())
CleanedLen(text) == text.len

Min2(a, b) == IF a < b THEN a ELSE b
Max2(a, b) == IF a > b THEN a ELSE b

\* Mutant of NextStart: the next chunk starts where the last one ended.
NextStart_NoOverlap(end, overlap) == end

\* line 107: start = max(0, end - overlap)
NextStart(end, overlap) == Max2(0, end - overlap)

\* lines 96-101: a blank text gives no chunk
ChunkBegin ==
    /\ ch_pc = "input"
    /\ ch_pc' = IF CleanedLen(ch_in) = 0 THEN "done" ELSE "loop"
    /\ ch_start' = 0
    /\ ch_chunks' = <<>>
    /\ UNCHANGED ch_in

\* lines 102-107: the while test and one pass through the loop body
ChunkStep ==
    /\ ch_pc = "loop"
    /\ LET length == CleanedLen(ch_in)
           end    == Min2(length, ch_start + ch_in.chunk_size)
       IN IF ~(ch_start < length)
          THEN ch_pc' = "done" /\ UNCHANGED <<ch_start, ch_chunks>>
          ELSE /\ ch_chunks' = Append(ch_chunks, [from |-> ch_start, to |-> end])
               /\ IF end >= length
                  THEN ch_pc' = "done" /\ UNCHANGED ch_start
                  ELSE ch_pc' = "loop" /\ ch_start' = NextStart(end, ch_in.overlap)
    /\ UNCHANGED ch_in

ChNext == ChunkBegin \/ ChunkStep

----------------------------------------------------------------------------
(* Specifications *)

vars == <<kvars, hvars, cvars, rvars, tvars, avars, gvars, chvars>>

Init == KInit /\ HIdle /\ CIdle /\ RIdle /\ TIdle /\ AIdle /\ GIdle /\ ChIdle
Next == KNext /\ UNCHANGED <<hvars, cvars, rvars, tvars, avars, gvars, chvars>>
Spec == Init /\ [][Next]_vars

\* The History Compressor alone, on every bounded input.
InitHistory == KInit /\ api_key /\ HInit /\ CIdle /\ RIdle /\ TIdle /\ AIdle /\ GIdle /\ ChIdle
NextHistory == HNext /\ UNCHANGED <<kvars, cvars, rvars, tvars, avars, gvars, chvars>>
SpecHistory == InitHistory /\ [][NextHistory]_vars

\* The Retrieval Selector alone, on every bounded customer and query.
InitSelector == KInit /\ api_key /\ HIdle /\ RInit /\ TIdle /\ AIdle /\ GIdle /\ ChIdle
NextSelector == RNext /\ UNCHANGED <<kvars, hvars, tvars, avars, gvars, chvars>>
SpecSelector == InitSelector /\ [][NextSelector]_vars

\* The Schema Matcher alone: two calls on unchanged data.
InitSchema == KInit /\ api_key /\ HIdle /\ RIdle /\ TInit /\ AIdle /\ GIdle /\ ChIdle
NextSchema == TNext /\ UNCHANGED <<kvars, hvars, rvars, avars, gvars, chvars>>
SpecSchema == InitSchema /\ [][NextSchema]_vars

\* One chat_with_agent call on every bounded customer and argument list.
InitAgent == KInit /\ api_key /\ HIdle /\ RIdle /\ TIdle /\ AInit /\ GIdle /\ ChIdle
NextAgent == ANext /\ UNCHANGED <<kvars, hvars, rvars, tvars, gvars, chvars>>
SpecAgent == InitAgent /\ [][NextAgent]_vars

\* One call of chat_with_agent or chat_with_agent_stream, the streaming one
\* with every bounded model stream and a caller that may stop consuming.
InitStream == KInit /\ api_key /\ HIdle /\ RIdle /\ TIdle /\ GInit /\ ChIdle
NextStream ==
    /\ (a_mode = "sync" /\ ANext /\ UNCHANGED gvars) \/ GNext
    /\ UNCHANGED <<kvars, hvars, rvars, tvars, chvars>>
SpecStream == InitStream /\ [][NextStream]_vars

\* _chunk_text on every bounded text and window; the loop runs on until
\* the function returns.
InitChunk == KInit /\ api_key /\ HIdle /\ CIdle /\ RIdle /\ TIdle /\ AIdle /\ GIdle /\ ChInit
NextChunk == ChNext /\ UNCHANGED <<kvars, hvars, cvars, rvars, tvars, avars, gvars>>
SpecChunk == InitChunk /\ [][NextChunk]_vars /\ WF_vars(NextChunk)

TypeOK == lock \in Searchers \cup {Free}

----------------------------------------------------------------------------
(* Claims about the Knowledge Vector Index, checked under Spec *)

\* C1: after an add/update/delete call has returned, a search that starts
\* afterwards never gets back an index that lacks that mutation, whatever
\* other searches run concurrently.
C1_NextSearchSeesMutation ==
    \A t \in Searchers : ~s_obs[t].stale

\* A cache value callers may see: empty, or a complete store together with
\* the signature of the snapshot it was built from.
ConsistentCache(st, sg) ==
    \/ st = NoStore /\ sg = NoSig
    \/ st.built /\ HasTexts(st.docs) /\ sg = SignatureFromDocs(st.docs)

\* C2: whenever the cache lock is not held the cache is (None, None) or
\* (a built store, the signature of the snapshot it was built from), and
\* every search that returned got nothing or a fully built store.
C2_NoHalfBuiltIndex ==
    /\ lock = Free => ConsistentCache(store, sig)
    /\ \A t \in Searchers :
          s_res[t] # "none" =>
             \/ s_got[t] = NoStore
             \/ s_got[t].built /\ HasTexts(s_got[t].docs)

C2_Witness ==
    /\ lock = Free
    /\ store.built
    /\ \E t \in Searchers : s_res[t] = "hits" /\ s_got[t] = store
    /\ \E u \in Searchers : s_pc[u] = "wait"

\* C3: among the search calls that run after an invalidation with no
\* document mutation in between, at most one builds the index (exactly one
\* once a build succeeded); a builder holds the lock alone, and every call
\* of the epoch that got a store got the one store that was built.
C3_SingleBuildPerEpoch ==
    /\ \A t \in Searchers : s_pc[t] \in {"building", "store_set"} => lock = t
    /\ epoch.clean => epoch.builds <= 1
    /\ epoch.clean =>
          \A t \in Searchers :
             (s_obs[t].cur /\ s_pc[t] = "idle" /\ s_got[t].built) =>
                 (s_got[t] = store /\ epoch.builds = 1)

C3_Witness ==
    /\ epoch.clean
    /\ epoch.builds = 1
    /\ returned >= 1
    /\ \E t, u \in Searchers :
          /\ t # u
          /\ s_obs[t].cur /\ s_obs[u].cur
          /\ s_pc[t] = "idle" /\ s_pc[u] = "idle"
          /\ ~s_obs[t].hit /\ s_got[t] = store
          /\ s_obs[u].hit /\ s_got[u] = store
          /\ store.built

\* C4: every add, update or delete that changes the document collection
\* changes the signature (document_count, max_document_id).
C4_MutationChangesSignature ==
    [][docs' # docs => SignatureFromDocs(docs') # SignatureFromDocs(docs)]_vars

C6_FailedBuildLeavesCacheEmpty ==
    /\ [](lastFail = "failed" => store = NoStore /\ sig = NoSig)
    /\ [][\A t \in Searchers :
            (s_pc[t] = "building" /\ s_pc'[t] = "idle") =>
                /\ s_res'[t] = "empty"
                /\ store' = NoStore /\ sig' = NoSig /\ lock' = Free]_vars
    /\ [][\A t \in Searchers :
            (s_pc[t] = "wait" /\ s_pc'[t] # "wait" /\ lastFail = "failed"
               /\ api_key /\ HasTexts(s_snap[t].docs)) =>
                s_pc'[t] = "building"]_vars

C6_Witness ==
    /\ lastFail = "retrying"
    /\ \E t, u \in Searchers :
          /\ s_pc[t] = "idle" /\ s_res[t] = "empty"
          /\ ~s_obs[t].hit /\ ~s_obs[t].nokey /\ ~s_obs[t].nodocs
          /\ s_pc[u] = "building"

\* C28: a search never assigns to the cache a store built from a document
\* snapshot older than the latest mutation whose invalidation has completed,
\* nor one older than the snapshot of the store it replaces.
C28_NoOlderSnapshotStored ==
    [][\A t \in Searchers :
          (s_pc[t] = "building" /\ s_pc'[t] = "store_set") =>
             /\ store'.seq >= returned
             /\ store.built => store'.seq >= store.seq]_vars

----------------------------------------------------------------------------
(* Claims about the History Compressor, checked under SpecHistory *)

\* A qualifying turn, stated on the caller's entry: a dict whose role is
\* user, assistant or ai in any letter case and whose content is not None.
IsTurn(e) ==
    /\ e.dict
    /\ e.role \in {"user", "assistant", "Assistant", "ai"}
    /\ e.content # NoContent

Turns(history) == SelectSeq(history, IsTurn)

IsVerbatim(m) == m.type \in {"human", "ai"}
IsSummaryMessage(m) == m.type = "system"

\* The role-tagged message a turn is handed on as: same role, same content,
\* cut to MsgCharCap characters plus the marker when it is longer.
Verbatim(e, m) ==
    /\ m.type = (IF e.role = "user" THEN "human" ELSE "ai")
    /\ m.tag = e.content.tag
    /\ m.cut = (e.content.len > MsgCharCap)
    /\ m.len = (IF e.content.len > MsgCharCap
                THEN MsgCharCap + MsgMarkerLen ELSE e.content.len)

\* C7: the returned list holds at most keep_last verbatim turn messages,
\* for every history and every keep_last >= 0.
C7_AtMostKeepLastVerbatim ==
    h_pc = "done" => Len(SelectSeq(h_out, IsVerbatim)) <= h_keep

\* C8 as stated: a history of at most keep_last entries comes back with as
\* many messages as it has entries, in order, without a summary message.
C8_IdentityOnShortHistory ==
    (h_pc = "done" /\ Len(h_in) <= h_keep) =>
        /\ Len(h_out) = Len(h_in)
        /\ \A i \in 1..Len(h_out) : ~IsSummaryMessage(h_out[i])

\* C8 amended: a history of at most keep_last entries comes back with as
\* many messages as it has qualifying turns, one per turn, in order and
\* with the turn's role, without a summary message.
C8_IdentityOnQualifyingTurns ==
    (h_pc = "done" /\ Len(h_in) <= h_keep) =>
        /\ Len(h_out) = Len(Turns(h_in))
        /\ \A i \in 1..Len(h_out) : Verbatim(Turns(h_in)[i], h_out[i])

C8_Witness ==
    /\ h_pc = "done"
    /\ Len(h_in) <= h_keep
    /\ Len(h_out) = 1
    /\ Len(h_in) = 2

\* The spec's scenario: 45 alternating user/assistant turns.
ScenarioHistory ==
    [i \in 1..45 |->
        [dict |-> TRUE,
         role |-> IF i % 2 = 1 THEN "user" ELSE "Assistant",
         content |-> [tag |-> "q", len |-> i, blank |-> FALSE]]]

\* C9: n qualifying turns with n > keep_last > 0 come back as keep_last + 1
\* messages: a leading summary message, then the last keep_last turns in
\* order with their roles; 45 turns and keep_last = 30 give 31 messages.
C9_SummaryPlusRecent ==
    /\ LET n == Len(Turns(h_in))
       IN (h_pc = "done" /\ n > h_keep /\ h_keep > 0) =>
            /\ Len(h_out) = h_keep + 1
            /\ IsSummaryMessage(h_out[1])
            /\ \A i \in 1..h_keep :
                  Verbatim(Turns(h_in)[n - h_keep + i], h_out[i + 1])
    /\ \A o \in LlmOutcomes :
          Len(CompressHistoryMessages(ScenarioHistory, KeepLastDefault, o))
             = KeepLastDefault + 1

C9_Witness ==
    /\ h_pc = "done"
    /\ h_keep = 2
    /\ Len(Turns(h_in)) = 3
    /\ Len(h_in) = 3
    /\ Len(h_out) = 3
    /\ h_out[1].summary.kind = "llm"
    /\ h_out[2].type = "ai" /\ h_out[3].type = "human"

\* C10: when the summarizer model is invoked and raises or returns empty
\* text, the call still returns: the leading message carries the
\* placeholder stating how many turns lie outside the last keep_last, and
\* the recent turns follow as they do when the model answers.
C10_PlaceholderOnModelFailure ==
    LET n == Len(Turns(h_in))
    IN (h_pc = "done" /\ Len(h_out) > 0 /\ h_out[1].summary.called
          /\ h_llm \in {"raise", "empty"}) =>
         /\ h_out[1].summary.kind = "placeholder"
         /\ h_out[1].summary.omitted = n - h_keep
         /\ Len(h_out) = h_keep + 1
         /\ \A i \in 1..h_keep :
               Verbatim(Turns(h_in)[n - h_keep + i], h_out[i + 1])
         /\ Tail(h_out) = Tail(CompressHistoryMessages(h_in, h_keep, "text"))

C10_Witness ==
    /\ h_pc = "done"
    /\ h_llm = "raise"
    /\ Len(h_out) = 2
    /\ h_out[1].summary.kind = "placeholder"
    /\ h_out[1].summary.omitted = 2
    /\ \E i \in 1..Len(h_in) : IsTurn(h_in[i]) /\ h_in[i].content.blank

----------------------------------------------------------------------------
(* Claims about the Retrieval Selector, checked under SpecSelector *)

\* A file name of the entry (filename or original_audio_filename),
\* lower-cased, occurs in the lower-cased query, or its stem is longer than
\* 5 characters and occurs there.
NamedInQuery(e, q) ==
    \E n \in {LowerName(e.fname), LowerName(e.oname)} \ {NoName} :
        \/ NameInQuery(n, q)
        \/ StemLen(StemOf(n)) > 5 /\ NameInQuery(StemOf(n), q)

\* The result has a block whose content was taken from entry id.
Emitted(id) == \E j \in 1..Len(r_out.text) : id \in r_out.text[j].ids

\* C11: every non-chat entry of the customer whose file name (or stem of
\* more than 5 characters) occurs in the lower-cased query has its block in
\* the result of retrieve_customer_data_context, whatever the selector model
\* answered and whatever other entries the customer owns.
C11_NamedEntryAlwaysIncluded ==
    (r_pc = "done" /\ c_exists /\ ~r_query.blank /\ r_fault = "none") =>
        \A i \in 1..Len(c_entries) :
            (~ChatPrefixed(c_entries[i].st) /\ NamedInQuery(c_entries[i], r_query))
                => Emitted(c_entries[i].id)

\* The block was taken from an entry the keyword pass found.
KeywordFound(b) == \E id \in b.ids : KeywordHit(c_entries[id], r_query)

\* C12: in the merged result (no profile keyword in the query) no entry id
\* occurs in two blocks, and no block of an entry that only the model
\* selected precedes a block of an entry the keyword pass found.
C12_MergedNoDuplicatesKeywordFirst ==
    (r_pc = "done" /\ ~IncludeAll(r_query)) =>
        LET t == r_out.text
        IN /\ \A i, j \in 1..Len(t) : i # j => t[i].ids \cap t[j].ids = {}
           /\ \A i, j \in 1..Len(t) : (i < j /\ KeywordFound(t[j])) => KeywordFound(t[i])

\* The model answered [2, 1]; entry 1 is also a keyword hit and entry 2 is
\* not: 1 is emitted first, once, and 2 after it.
C12_Witness ==
    /\ r_pc = "done" /\ ~IncludeAll(r_query)
    /\ r_llm.ids = <<2, 1>>
    /\ Len(r_out.text) = 2
    /\ r_out.text[1].ids = {1} /\ KeywordFound(r_out.text[1])
    /\ r_out.text[2].ids = {2} /\ ~KeywordFound(r_out.text[2])

\* C13 as stated: the content of every emitted block has at most
\* BlockCharCap characters, and a block whose source content was longer ends
\* with the truncation marker.
C13_BlockContentWithinCap ==
    r_pc = "done" =>
        \A j \in 1..Len(r_out.text) :
            /\ r_out.text[j].len <= BlockCharCap
            /\ r_out.text[j].src > BlockCharCap => r_out.text[j].cut

\* C13, amended: a block keeps at most BlockCharCap characters of its source
\* content; a longer source content is emitted as its first BlockCharCap
\* characters followed by the marker (so the content of the block is
\* BlockCharCap plus the marker's length long), a shorter one is emitted
\* whole and without the marker.
C13_BlockKeepsCapPlusMarker ==
    r_pc = "done" =>
        \A j \in 1..Len(r_out.text) :
            LET b == r_out.text[j]
            IN /\ b.len <= BlockCharCap + BlockMarkerLen
               /\ b.src > BlockCharCap => (b.cut /\ b.len = BlockCharCap + BlockMarkerLen)
               /\ b.src <= BlockCharCap => (~b.cut /\ b.len = b.src)

\* A result with a cut block and a block whose source is exactly as long as
\* the cap.
C13_Witness ==
    /\ r_pc = "done"
    /\ \E j \in 1..Len(r_out.text) : r_out.text[j].cut
    /\ \E j \in 1..Len(r_out.text) :
          r_out.text[j].src = BlockCharCap /\ ~r_out.text[j].cut

\* C14: when the query has a profile keyword, every import of the customer
\* is emitted, in exactly one block per table name, the name being the one
\* _resolve_import_table_name (the schema matcher) gives the record.
C14_OverrideGroupsByResolvedName ==
    (r_pc = "done" /\ c_exists /\ ~r_query.blank /\ IncludeAll(r_query)
                   /\ r_fault = "none") =>
        LET t       == r_out.text
            imports == {i \in 1..Len(c_entries) : c_entries[i].st = "import_record"}
            blocks  == {j \in 1..Len(t) : t[j].st = "import_record"}
            name(i) == ResolveImportTableName(c_entries[i], c_sheets)
        IN /\ \A i \in imports : \E j \in blocks : c_entries[i].id \in t[j].ids
           /\ \A i \in imports :
                 Cardinality({j \in blocks : t[j].label = TextName(name(i))}) = 1
           /\ \A j \in blocks : \A id \in t[j].ids : t[j].label = TextName(name(id))

\* C15: retrieve_customer_data_context never raises to its caller; it
\* returns the empty string for an unknown customer and for an empty query,
\* and whenever its exception handler ran, whatever had been rendered.
C15_NeverRaisesEmptyOnFailure ==
    r_pc = "done" =>
        /\ ~r_out.exc
        /\ (~c_exists \/ r_query.blank) => r_out.text = <<>>
        /\ r_out.failed => r_out.text = <<>>

\* The selector model raised, and an exception was raised after blocks had
\* been rendered: they are discarded.
C15_Witness ==
    /\ r_pc = "done"
    /\ r_llm.kind = "raise"
    /\ r_out.failed /\ r_out.discarded > 0
    /\ r_out.text = <<>>

\* C21: when the query contains a profile keyword, the call does not invoke
\* the selector model, and its result is the same whatever the selector
\* model would have answered: it depends on the stored entries only.
C21_OverrideBypassesModel ==
    (r_pc = "done" /\ c_exists /\ ~r_query.blank /\ IncludeAll(r_query)) =>
        /\ ~r_out.called
        /\ \A answer \in SelectorAnswers :
              RetrieveCustomerDataContext(c_exists, c_entries, r_query,
                  MaxCandidatesDefault, MaxResultsDefault, answer, r_fault).text
                = r_out.text

\* The non-chat entries of the customer the keyword pass finds.
KeywordEntries ==
    {i \in 1..Len(c_entries) :
        ~ChatPrefixed(c_entries[i].st) /\ NamedInQuery(c_entries[i], r_query)}

\* The ids of the entries the result has blocks of.
EmittedIds == UNION {r_out.text[j].ids : j \in 1..Len(r_out.text)}

\* The selector model named no candidate.
NoModelPick ==
    r_llm.kind = "ids" =>
        \A k \in 1..Len(r_llm.ids) :
            \A i \in 1..Len(c_entries) :
                c_entries[i].id = r_llm.ids[k] => ChatPrefixed(c_entries[i].st)

\* The call returned normally and neither the keyword pass nor the model
\* pass found an entry.
NoPassFound ==
    /\ r_pc = "done" /\ c_exists /\ ~r_query.blank /\ r_fault = "none"
    /\ KeywordEntries = {}
    /\ NoModelPick

\* A candidate with a file name in its meta or a document/audio source type.
FileLike ==
    {i \in 1..Len(c_entries) :
        /\ ~ChatPrefixed(c_entries[i].st)
        /\ \/ c_entries[i].fname # NoName
           \/ c_entries[i].oname # NoName
           \/ c_entries[i].st \in {"document_pdf", "audio_transcription"}}

\* The imports of the customer.
ImportEntries == {i \in 1..Len(c_entries) : c_entries[i].st = "import_record"}

\* The entries of S are emitted up to MaxResultsDefault of them, the newest
\* ones, and nothing else is.
NewestOf(S) ==
    /\ EmittedIds \subseteq {c_entries[i].id : i \in S}
    /\ Cardinality(EmittedIds) =
          (IF Cardinality(S) > MaxResultsDefault THEN MaxResultsDefault
           ELSE Cardinality(S))
    /\ \A i, j \in S :
          (c_entries[i].id \in EmittedIds /\ c_entries[j].id \notin EmittedIds)
             => c_entries[j].at < c_entries[i].at

BadAnswer(answer) ==
    \/ answer.kind \in {"raise", "notjson", "jsonlist"}
    \/ /\ answer.kind = "ids"
       /\ \A k \in 1..Len(answer.ids) :
             \A i \in 1..Len(c_entries) : c_entries[i].id # answer.ids[k]

\* C23: when the selector model raises, answers with text that is no JSON,
\* with JSON of the wrong shape or with ids of no candidate, the call does
\* not raise, the model pass adds no entry (with keyword hits and no profile
\* keyword only keyword hits are emitted), and every entry the keyword pass
\* found is emitted.
C23_ModelFailureKeepsKeywordHits ==
    (r_pc = "done" /\ c_exists /\ ~r_query.blank /\ r_fault = "none"
                   /\ BadAnswer(r_llm)) =>
        /\ ~r_out.exc /\ ~r_out.failed
        /\ (KeywordEntries # {} /\ ~IncludeAll(r_query)) =>
              \A j \in 1..Len(r_out.text) :
                  r_out.text[j].ids \subseteq {c_entries[i].id : i \in KeywordEntries}
        /\ \A i \in KeywordEntries : Emitted(c_entries[i].id)

\* C24: no entry whose source type is a conversational log (chat_history_*
\* or agent_chat_*) has a block in the result of
\* retrieve_customer_data_context, whatever the query, the selector model's
\* answer and the path taken, the rows an earlier chat_with_agent call
\* appended included.
C24_NoChatEntryEmitted ==
    r_pc = "done" =>
        \A i \in 1..Len(c_entries) :
            ChatPrefixed(c_entries[i].st) => c_entries[i].id \notin EmittedIds

\* An earlier chat call left its two rows after a document; the selector
\* model names the user-query row and the document: only the document is
\* emitted.
C24_Witness ==
    /\ r_pc = "done"
    /\ Len(c_entries) = 3
    /\ c_entries[2].st = "agent_chat_user" /\ c_entries[2].id = 2
    /\ c_entries[3].st = "agent_chat_ai"
    /\ r_llm.ids = <<2, 1>>
    /\ EmittedIds = {1}

----------------------------------------------------------------------------
(* Claims about the Schema Matcher, checked under SpecSchema *)

\* C19: two calls of match_customer_schema with the same customer and query,
\* with no change of the entries or of the alias configuration in between,
\* return the same explicit_tables, fuzzy_tables, field_tables and
\* matched_fields, element by element, in whatever order the database hands
\* out the rows.
C19_MatchIdempotent ==
    t_pc = 2 =>
        /\ t_res[1].explicit_tables = t_res[2].explicit_tables
        /\ t_res[1].fuzzy_tables = t_res[2].fuzzy_tables
        /\ t_res[1].field_tables = t_res[2].field_tables
        /\ t_res[1].matched_fields = t_res[2].matched_fields

\* Two calls that met the tables in different orders and matched two of them.
C19_Witness ==
    /\ t_pc = 2
    /\ t_res[1].schema.table_names # t_res[2].schema.table_names
    /\ Len(t_res[1].fuzzy_tables) = 2

\* The raw identifier of an import: its source_name, else its table id, else
\* its token.
RawIdentifier(e) ==
    IF e.source_name # "" THEN e.source_name
    ELSE IF e.table_id # "" THEN e.table_id
    ELSE e.token

\* The aliases the configuration of the record has for the record's token.
TokenAliases(e) ==
    {s.alias : s \in {x \in SeqRange(AliasSheets(e.cfg, c_sheets)) :
                         ParseFeishuToken(x.token)[1] = e.token}}

\* The import carries an internal-looking raw identifier and its token has
\* a configured alias.
Aliased(e) ==
    /\ e.st = "import_record"
    /\ LooksLikeInternalTableName(RawIdentifier(e))
    /\ e.token # "" /\ TokenAliases(e) # {}

\* C20: when imports carry an internal-looking raw identifier and their
\* token has a configured alias, table_names of build_customer_import_schema
\* lists an alias of the token for them, lists no name twice, and does not
\* list the raw identifier (unless a record without a configured alias
\* carries the same identifier).
C20_AliasReplacesRawIdentifier ==
    (t_pc >= 1 /\ c_exists) =>
        LET names    == t_res[1].schema.table_names
            listed   == SeqRange(names)
            imports  == {e \in SeqRange(c_entries) : e.st = "import_record"}
        IN /\ \A i, j \in 1..Len(names) : i # j => names[i] # names[j]
           /\ \A e \in imports :
                 Aliased(e) =>
                    /\ TokenAliases(e) \cap listed # {}
                    /\ (\A x \in imports : RawIdentifier(x) = RawIdentifier(e) => Aliased(x))
                          => RawIdentifier(e) \notin listed

\* Two imports share a token with a configured alias and an internal-looking
\* raw identifier: one table name, the alias.
C20_Witness ==
    /\ t_pc >= 1 /\ c_exists
    /\ Len(c_entries) = 2
    /\ Aliased(c_entries[1]) /\ Aliased(c_entries[2])
    /\ c_entries[1].token = c_entries[2].token
    /\ RawIdentifier(c_entries[1]) = RawIdentifier(c_entries[2])
    /\ t_res[1].schema.table_names = <<"Q3 Assets">>

\* The fuzzy condition of the specification: the query without its filler
\* words, normalized, has at least two characters and occurs in the
\* normalized table name.
FuzzyCondition(name, query) ==
    LET n    == NormalizeMatchText(Chars(name))
        core == NormalizeMatchText(StripFillers(query))
    IN n # <<>> /\ Len(core) >= 2 /\ IsInfix(core, n)

\* The explicit condition: the normalized table name occurs in the
\* normalized query.
ExplicitCondition(name, query) ==
    LET n == NormalizeMatchText(Chars(name))
    IN n # <<>> /\ IsInfix(n, NormalizeMatchText(query))

\* C25: the tiers of match_customer_schema are not exclusive: every table
\* that meets the fuzzy condition is in fuzzy_tables, also when it meets the
\* explicit condition as well and so is in explicit_tables too.
C25_TiersNotExclusive ==
    \A k \in 1..Len(t_res) :
        \A i \in 1..Len(t_res[k].schema.table_names) :
            LET t == t_res[k].schema.table_names[i]
            IN /\ FuzzyCondition(t, t_query) => t \in SeqRange(t_res[k].fuzzy_tables)
               /\ ExplicitCondition(t, t_query) => t \in SeqRange(t_res[k].explicit_tables)

----------------------------------------------------------------------------
(* Claims about the Context Assembler, checked under SpecAgent *)

\* _build_agent_messages returned its list to chat_with_agent.
Returned == a_pc \in {"built", "saved", "answered", "done"}

\* The place of a block in the order the specification fixes.
BlockOrder(block) ==
    CASE block = "system"    -> 1
      [] block = "basic"     -> 2
      [] block = "logs"      -> 3
      [] block = "knowledge" -> 4
      [] block = "selector"  -> 5
      [] block = "history"   -> 6
      [] block = "query"     -> 7

BlocksOf(msgs) == {msgs[i].block : i \in 1..Len(msgs)}

\* C16: in every list _build_agent_messages returns, the blocks that are
\* present stand in the order system persona, basic profile, raw log,
\* knowledge hits, selector output, compressed history, current query; only
\* the history spans several messages; the first message is the system
\* persona and the last one is the current query.
C16_FixedBlockOrder ==
    Returned =>
        /\ a_msgs # <<>>
        /\ a_msgs[1].block = "system"
        /\ a_msgs[Len(a_msgs)].block = "query"
        /\ \A i, j \in 1..Len(a_msgs) :
              i < j =>
                /\ BlockOrder(a_msgs[i].block) <= BlockOrder(a_msgs[j].block)
                /\ (a_msgs[i].block = a_msgs[j].block
                       => a_msgs[i].block = "history")

C16_Witness ==
    /\ a_pc = "done"
    /\ BlocksOf(a_msgs) = {"system", "basic", "logs", "knowledge", "selector",
                           "history", "query"}
    /\ Len(a_msgs) > 7

\* C17: a block whose content is empty is left out of the list
\* _build_agent_messages returns: no raw-log message when the customer has
\* no recent conversational-log entry, no knowledge message without
\* knowledge hits, no selector message without selector output, no history
\* message without history, and no message that is a header without content.
C17_EmptyBlocksOmitted ==
    a_pc = "built" =>
        /\ (RecentLogs(c_entries) = <<>> => "logs" \notin BlocksOf(a_msgs))
        /\ (~a_rag => "knowledge" \notin BlocksOf(a_msgs))
        /\ (a_query.blank => "selector" \notin BlocksOf(a_msgs))
        /\ (a_hist = <<>> => "history" \notin BlocksOf(a_msgs))
        /\ \A i \in 1..Len(a_msgs) :
              a_msgs[i].block # "query" => a_msgs[i].items > 0

\* C18: for an existing customer chat_with_agent never raises and returns a
\* text, whatever fails among the selector model, the summarizer model, the
\* chat model and the two log writes; a chat-model failure gives the text
\* with the system-error prefix; the only exception it raises is the
\* ValueError for a customer id that does not exist.
C18_OnlyLookupFailureRaises ==
    /\ a_pc = "raised" => (~c_exists /\ a_result.kind = "ValueError")
    /\ ~c_exists => a_pc \in {"input", "raised"}
    /\ a_pc = "done" => a_result.kind \in {"text", "marker"}
    /\ (a_pc = "done" /\ "chat_model" \in a_faults) => a_result.kind = "marker"

C18_Witness ==
    /\ a_pc = "done"
    /\ c_exists
    /\ {"selector_model", "summarizer_model", "chat_model", "save_query",
         "save_response"} \subseteq a_faults
    /\ a_result.kind = "marker"

----------------------------------------------------------------------------
(* Claims about chat_with_agent_stream, checked under SpecStream *)

\* The chunks of the model stream that carry a token.
NonEmptyChunks == SelectSeq(g_produced, LAMBDA c : c # "")

\* The stream of the model came to its end, normally or with an exception,
\* and the caller consumed everything.
StreamEnded == a_mode = "stream" /\ a_pc \in {"after", "done"}

\* C26 as stated: the tokens yielded to the caller are the non-empty tokens
\* of the model stream, in the same order, and whenever the model stream is
\* asked for a chunk every token it produced before has been yielded.
C26_YieldedEqualsModelTokens ==
    /\ [](StreamEnded => g_yielded = NonEmptyChunks)
    /\ [][g_produced' # g_produced => g_yielded = NonEmptyChunks]_vars

\* C26, amended: the tokens yielded are the non-empty tokens of the model
\* stream in their order, followed by the error text as one more token when
\* the model stream raised; whenever the model stream is asked for a chunk
\* every token it produced before has been yielded.
C26_YieldedModelTokensThenError ==
    /\ [](StreamEnded =>
            g_yielded = NonEmptyChunks \o
                (IF "chat_model" \in a_faults THEN <<ErrorToken>> ELSE <<>>))
    /\ [][g_produced' # g_produced => g_yielded = NonEmptyChunks]_vars

\* A stream of a token, a chunk without content and a second token, that
\* then raises: the two tokens and the error text were yielded.
C26_Witness ==
    /\ a_mode = "stream" /\ a_pc = "done"
    /\ g_produced = <<"t1", "", "t2">>
    /\ g_yielded = <<"t1", "t2", ErrorToken>>

\* The rows of the customer with the given source type.
RowsOf(st) == {i \in 1..Len(c_entries) : c_entries[i].st = st}

\* C29: in a run of chat_with_agent_stream for an existing customer the
\* user query is persisted before the first token is yielded; an AI
\* response is persisted at most once and only after the stream ended; and
\* once the run is over, by the end of the stream or because the caller
\* stopped consuming, the persisted user query is followed by exactly one
\* AI response (writes that fail set aside).
C29_StreamPersistsQueryThenResponse ==
    (a_mode = "stream" /\ c_exists) =>
        /\ (g_yielded # <<>> /\ "save_query" \notin a_faults)
              => RowsOf("agent_chat_user") # {}
        /\ Cardinality(RowsOf("agent_chat_ai")) <= 1
        /\ RowsOf("agent_chat_ai") # {} => a_pc = "done"
        /\ (a_pc \in {"done", "closed"} /\ RowsOf("agent_chat_user") # {}
               /\ "save_response" \notin a_faults)
              => /\ Cardinality(RowsOf("agent_chat_ai")) = 1
                 /\ \A i \in RowsOf("agent_chat_user"), j \in RowsOf("agent_chat_ai") : i < j

\* C30: a call of chat_with_agent or chat_with_agent_stream with an id no
\* customer has ends with the ValueError of the lookup and nothing else: no
\* row is written, no model is invoked, no token is yielded, and the
\* knowledge cache stays as it is.
C30_LookupFailureHasNoSideEffect ==
    /\ [](~c_exists =>
            /\ a_pc \in {"input", "raised"}
            /\ a_pc = "raised" => a_result.kind = "ValueError"
            /\ c_entries = <<>>
            /\ a_calls = {}
            /\ g_yielded = <<>>)
    /\ [][~c_exists => UNCHANGED kvars]_vars

C30_Witness ==
    /\ ~c_exists
    /\ a_mode = "stream"
    /\ a_pc = "raised"
    /\ a_result.kind = "ValueError"

----------------------------------------------------------------------------
(* Claims about _chunk_text, checked under SpecChunk *)

\* The chunks returned for a non-blank text are as C27 says.
ChunksCoverText ==
    LET n == Len(ch_chunks)
    IN /\ n >= 1
       /\ \A i \in 1..n : ch_chunks[i].to - ch_chunks[i].from <= ch_in.chunk_size
       /\ \A i \in 1..(n - 1) :
             /\ ch_chunks[i].to - ch_chunks[i].from = ch_in.chunk_size
             /\ ch_chunks[i].to - ch_chunks[i + 1].from = ch_in.overlap
             /\ ch_chunks[i + 1].to > ch_chunks[i].to
       /\ ch_chunks[1].from = 0
       /\ ch_chunks[n].to = ch_in.len
       /\ ch_chunks[n].to > ch_chunks[n].from

\* C27: for chunk_size 800 and overlap 100, and for every chunk_size >
\* overlap >= 0, _chunk_text on a non-blank text returns: every chunk has at
\* most chunk_size characters and every chunk but the last exactly
\* chunk_size, consecutive chunks share exactly overlap characters, the
\* first chunk starts at the first and the last chunk ends at the last
\* character of the stripped text.
C27_ChunksWindowAndOverlap ==
    /\ []((ch_pc = "done" /\ ch_in.len > 0) => ChunksCoverText)
    /\ <>(ch_pc = "done")

\* The default window on a text of 1501 characters: chunks [0, 800),
\* [700, 1500) and the chunk [1400, 1501), shorter than the window.
C27_Witness ==
    /\ ch_pc = "done"
    /\ ch_in.chunk_size = ChunkSizeDefault /\ ch_in.overlap = OverlapDefault
    /\ Len(ch_chunks) = 3
    /\ ch_chunks[3].to - ch_chunks[3].from < ChunkSizeDefault

====
